---------------------------- MODULE Spec2Model ----------------------------
(***************************************************************************)
(* Step-wise algorithm visualizer: the steppers of src/main.js             *)
(* (prefix M_), of src/unnamed/part_000 (prefix P_) and of src/script.js   *)
(* (prefix S_ for its classes, R_ for the registry built by                *)
(* makeArrayAlgo / makeSearchAlgo / makeGridAlgo), driven by step() and    *)
(* draw() calls.                                                           *)
(*                                                                         *)
(* A stepper object is a record: its class tag cls, its fields, and out,   *)
(* the notifications the current step() call has sent to the sound sink    *)
(* so far (empty between calls).  JavaScript arrays are sequences read     *)
(* through At/Put with the source's 0-based indices.                       *)
(***************************************************************************)
EXTENDS Integers, Sequences, FiniteSets, TLC

VARIABLES simA, simB, sfx, cores, arr0

vars == <<simA, simB, sfx, cores, arr0>>

(***************************************************************************)
(* Bounds of the model.                                                    *)
(***************************************************************************)
MaxLen == 5

MaxVal == 3

MaxSeed == 5

GridSize == 4

MaxWalls == 4

MaxSteps == 12

MaxPairLen == 3

MaxGridSeed == 11

MaxPoints == 2

MaxCalls == 62

----------------------------------------------------------------------------
(***************************************************************************)
(* JavaScript values and arrays.                                           *)
(***************************************************************************)
\* the value of a read outside an array; every relational test on it is false
undefined == 0 - 1

null == 0 - 2

At(a, i) == IF i >= 0 /\ i < Len(a) THEN a[i + 1] ELSE undefined

Put(a, i, v) == [a EXCEPT ![i + 1] = v]

\* a swap without a temporary: a[i] = a[j]; a[j] = a[i]
Swap_overwrite(a, i, j) == [a EXCEPT ![i + 1] = a[j + 1]]

\* [a[i], a[j]] = [a[j], a[i]]
Swap(a, i, j) == [a EXCEPT ![i + 1] = a[j + 1], ![j + 1] = a[i + 1]]

JsLt(x, y) == x # undefined /\ y # undefined /\ x < y

JsGt(x, y) == JsLt(y, x)

JsLe(x, y) == x # undefined /\ y # undefined /\ x <= y

Push(q, e) == Append(q, e)

Top(q) == q[Len(q)]

Pop(q) == SubSeq(q, 1, Len(q) - 1)

\* the object {} used as a map: highlights[k] = c
Hl(s, k, c) == [s EXCEPT !.highlights = (k :> c) @@ @]

Snd(s, n) == [s EXCEPT !.out = Append(@, n)]

Inc(s, f, k) == [s EXCEPT !.stats[f] = @ + k]

Quiet(s) == [s EXCEPT !.out = <<>>]

RECURSIVE HlRange(_, _, _, _)
\* for (let k = lo; k < hi; k++) highlights[k] = c
HlRange(s, lo, hi, c) ==
  IF lo >= hi THEN s ELSE HlRange(Hl(s, lo, c), lo + 1, hi, c)

IsSorted(a) == \A k \in 1..(Len(a) - 1) : a[k] <= a[k + 1]

Count(a, v) == Cardinality({k \in 1..Len(a) : a[k] = v})

IsPerm(a, b) ==
  /\ Len(a) = Len(b)
  /\ \A k \in 1..Len(a) : Count(a, a[k]) = Count(b, a[k])

Arrays == UNION {[1..n -> 1..MaxVal] : n \in 0..MaxLen}

----------------------------------------------------------------------------
(***************************************************************************)
(* main.js: SeededRNG.  The 32-bit state is the pair <<hi, lo>> of its     *)
(* 16-bit halves, so that no product leaves the 32-bit integers.           *)
(***************************************************************************)
M_SeededRNG(seed) == <<seed \div 65536, seed % 65536>>

M_next(st) ==
  LET low == st[2] * 26125 + 62303
      high == st[1] * 26125 + st[2] * 25 + (low \div 65536) + 15470
  IN <<high % 65536, low % 65536>>

\* Math.floor(min + (state / 2^32) * (max + 1 - min)) for the state after next()
M_int(st, min, max) ==
  min + ((st[1] * (max + 1 - min) + ((st[2] * (max + 1 - min)) \div 65536)) \div 65536)

RECURSIVE M_ints(_, _, _, _)
\* Array.from({length: n}, () => rng.int(min, max)): <<values, rng state after>>
M_ints(st, n, min, max) ==
  IF n = 0 THEN <<<<>>, st>>
  ELSE LET s1 == M_next(st)
           rest == M_ints(s1, n - 1, min, max)
       IN <<<<M_int(s1, min, max)>> \o rest[1], rest[2]>>

----------------------------------------------------------------------------
(***************************************************************************)
(* main.js: Algorithm, SortingAlgorithm and the six sorting steppers.      *)
(***************************************************************************)
M_finish(s) == Snd([s EXCEPT !.isDone = TRUE], "finish")

M_SortStats == [comparisons |-> 0, swaps |-> 0, accesses |-> 0, steps |-> 0]

\* an init that leaves this.stats as it is
M_SortingAlgorithm_keepStats(cls, arr) ==
  [cls |-> cls, arr |-> arr, isDone |-> FALSE, highlights |-> <<>>, out |-> <<>>]

\* the fields SortingAlgorithm.init assigns, the generated array given
M_SortingAlgorithm(cls, arr) ==
  [cls |-> cls, arr |-> arr, isDone |-> FALSE, stats |-> M_SortStats,
   highlights |-> <<>>, out |-> <<>>]

M_SortingData(seed, size) == M_ints(M_SeededRNG(seed), size, 1, 100)[1]

M_BubbleSort_init(arr) ==
  M_SortingAlgorithm("M.BubbleSort", arr) @@ [i |-> 0, j |-> 0]

\* a step() that also exchanges equal neighbours
M_BubbleSort_advance_equal(s) ==
  LET s1 == Inc(s, "steps", 1)
      n == Len(s.arr)
  IN IF s1.i >= n - 1 THEN M_finish(s1)
     ELSE
       LET s2 == Inc(Inc(Hl(Hl(s1, s1.j, "#ff6b6b"), s1.j + 1, "#ff6b6b"),
                         "comparisons", 1), "accesses", 2)
           s3 == IF JsGt(At(s2.arr, s2.j), At(s2.arr, s2.j + 1))
                    \/ At(s2.arr, s2.j) = At(s2.arr, s2.j + 1)
                 THEN Snd(Hl(Hl(Inc([s2 EXCEPT !.arr = Swap(@, s2.j, s2.j + 1)],
                                    "swaps", 1),
                                s2.j, "#4ecdc4"), s2.j + 1, "#4ecdc4"), "swap")
                 ELSE Snd(s2, "compare")
           s4 == [s3 EXCEPT !.j = @ + 1]
       IN IF s4.j >= n - 1 - s4.i
          THEN [Hl(s4, n - 1 - s4.i, "#45b7d1") EXCEPT !.j = 0, !.i = @ + 1]
          ELSE s4

\* BubbleSort.step past its first line
M_BubbleSort_advance(s) ==
  LET s1 == Inc(s, "steps", 1)
      n == Len(s.arr)
  IN IF s1.i >= n - 1 THEN M_finish(s1)
     ELSE
       LET s2 == Inc(Inc(Hl(Hl(s1, s1.j, "#ff6b6b"), s1.j + 1, "#ff6b6b"),
                         "comparisons", 1), "accesses", 2)
           s3 == IF JsGt(At(s2.arr, s2.j), At(s2.arr, s2.j + 1))
                 THEN Snd(Hl(Hl(Inc([s2 EXCEPT !.arr = Swap(@, s2.j, s2.j + 1)],
                                    "swaps", 1),
                                s2.j, "#4ecdc4"), s2.j + 1, "#4ecdc4"), "swap")
                 ELSE Snd(s2, "compare")
           s4 == [s3 EXCEPT !.j = @ + 1]
       IN IF s4.j >= n - 1 - s4.i
          THEN [Hl(s4, n - 1 - s4.i, "#45b7d1") EXCEPT !.j = 0, !.i = @ + 1]
          ELSE s4

\* a step() that lacks the line `if (this.finished) return;`
M_BubbleSort_step_unguarded(s) == M_BubbleSort_advance(s)

M_BubbleSort_step(s) == IF s.isDone THEN s ELSE M_BubbleSort_advance(s)

RECURSIVE M_partitionLoop(_, _, _, _, _)
\* the for loop of _partition: [s, i] after the iterations j..high-1
M_partitionLoop(s, j, high, i, pivot) ==
  IF j >= high THEN [s |-> s, i |-> i]
  ELSE
    LET s1 == Hl(Inc(Inc(s, "comparisons", 1), "accesses", 2), j, "#feca57")
    IN IF JsLt(At(s1.arr, j), pivot)
       THEN M_partitionLoop(
              Hl(Inc([s1 EXCEPT !.arr = Swap(@, i + 1, j)], "swaps", 1),
                 i + 1, "#48dbfb"),
              j + 1, high, i + 1, pivot)
       ELSE M_partitionLoop(s1, j + 1, high, i, pivot)

\* [s, pi]: the stepper after _partition(low, high) and the index it returns
M_QuickSort_partition(s, low, high) ==
  LET pivot == At(s.arr, high)
      r == M_partitionLoop(Hl(s, high, "#ff9ff3"), low, high, low - 1, pivot)
  IN [s |-> Inc([r.s EXCEPT !.arr = Swap(@, r.i + 1, high)], "swaps", 1),
      pi |-> r.i + 1]

M_QuickSort_init(arr) ==
  M_SortingAlgorithm("M.QuickSort", arr)
    @@ [stack |-> <<<<0, Len(arr) - 1>>>>, pivotIndex |-> 0 - 1]

\* step() that forgets the range left of the pivot
M_QuickSort_step_skipLeft(s) ==
  IF s.isDone THEN s
  ELSE
    LET s1 == Inc(s, "steps", 1)
    IN IF Len(s1.stack) = 0 THEN M_finish(s1)
       ELSE
         LET low == Top(s1.stack)[1]
             high == Top(s1.stack)[2]
             s2 == [s1 EXCEPT !.stack = Pop(@)]
         IN IF low < high
            THEN LET p == M_QuickSort_partition(s2, low, high)
                 IN Snd(Hl([p.s EXCEPT
                              !.stack = Push(@, <<p.pi + 1, high>>),
                              !.pivotIndex = p.pi],
                           p.pi, "#45b7d1"), "swap")
            ELSE Snd(s2, "access")

M_QuickSort_step(s) ==
  IF s.isDone THEN s
  ELSE
    LET s1 == Inc(s, "steps", 1)
    IN IF Len(s1.stack) = 0 THEN M_finish(s1)
       ELSE
         LET low == Top(s1.stack)[1]
             high == Top(s1.stack)[2]
             s2 == [s1 EXCEPT !.stack = Pop(@)]
         IN IF low < high
            THEN LET p == M_QuickSort_partition(s2, low, high)
                 IN Snd(Hl([p.s EXCEPT
                              !.stack = Push(Push(@, <<low, p.pi - 1>>),
                                             <<p.pi + 1, high>>),
                              !.pivotIndex = p.pi],
                           p.pi, "#45b7d1"), "swap")
            ELSE Snd(s2, "access")

RECURSIVE M_copyTemp(_, _, _)
\* for (let x = left; x <= right; x++) { temp[x] = arr[x]; highlights[x] = ... }
M_copyTemp(s, x, right) ==
  IF x > right THEN s
  ELSE M_copyTemp(Hl([s EXCEPT !.temp = Put(@, x, At(s.arr, x))], x, "#54a0ff"),
                  x + 1, right)

RECURSIVE M_mergeLoop(_, _, _, _, _, _)
\* the three while loops of _merge, from the cursors i, j, k
M_mergeLoop(s, i, j, k, mid, right) ==
  IF i <= mid /\ j <= right
  THEN LET s1 == Inc(Inc(s, "comparisons", 1), "accesses", 2)
       IN IF JsLe(At(s1.temp, i), At(s1.temp, j))
          THEN M_mergeLoop(Hl([s1 EXCEPT !.arr = Put(@, k, At(s1.temp, i))],
                              k, "#5f27cd"),
                           i + 1, j, k + 1, mid, right)
          ELSE M_mergeLoop(Hl([s1 EXCEPT !.arr = Put(@, k, At(s1.temp, j))],
                              k, "#ff9ff3"),
                           i, j + 1, k + 1, mid, right)
  ELSE IF i <= mid
  THEN M_mergeLoop(Inc(Hl([s EXCEPT !.arr = Put(@, k, At(s.temp, i))],
                          k, "#5f27cd"), "accesses", 1),
                   i + 1, j, k + 1, mid, right)
  ELSE IF j <= right
  THEN M_mergeLoop(Inc(Hl([s EXCEPT !.arr = Put(@, k, At(s.temp, j))],
                          k, "#ff9ff3"), "accesses", 1),
                   i, j + 1, k + 1, mid, right)
  ELSE s

\* _merge that reads temp without copying the range into it first
M_MergeSort_merge_noCopy(s, left, mid, right) ==
  M_mergeLoop(s, left, mid + 1, left, mid, right)

M_MergeSort_merge(s, left, mid, right) ==
  M_mergeLoop(M_copyTemp(s, left, right), left, mid + 1, left, mid, right)

M_MergeSort_init(arr) ==
  M_SortingAlgorithm("M.MergeSort", arr)
    @@ [stack |-> <<<<0, Len(arr) - 1, "split">>>>,
        temp |-> [k \in 1..Len(arr) |-> undefined]]

M_MergeSort_step(s) ==
  IF s.isDone THEN s
  ELSE
    LET s1 == Inc(s, "steps", 1)
    IN IF Len(s1.stack) = 0 THEN M_finish(s1)
       ELSE
         LET left == Top(s1.stack)[1]
             right == Top(s1.stack)[2]
             action == Top(s1.stack)[3]
             mid == (left + right) \div 2
             s2 == [s1 EXCEPT !.stack = Pop(@)]
         IN IF action = "split"
            THEN IF left < right
                 THEN Snd([s2 EXCEPT !.stack =
                             Push(Push(Push(@, <<left, right, "merge">>),
                                       <<mid + 1, right, "split">>),
                                  <<left, mid, "split">>)],
                          "access")
                 ELSE s2
            ELSE Snd(M_MergeSort_merge(s2, left, mid, right), "swap")

RECURSIVE M_HeapSort_heapify(_, _)
M_HeapSort_heapify(s, i) ==
  LET left == 2 * i + 1
      right == 2 * i + 2
      s1 == Hl(s, i, "#feca57")
      s2 == IF left < s1.heapSize
            THEN Hl(Inc(Inc(s1, "comparisons", 1), "accesses", 2), left, "#ff9ff3")
            ELSE s1
      l1 == IF left < s1.heapSize /\ JsGt(At(s.arr, left), At(s.arr, i))
            THEN left ELSE i
      s3 == IF right < s2.heapSize
            THEN Hl(Inc(Inc(s2, "comparisons", 1), "accesses", 2), right, "#48dbfb")
            ELSE s2
      largest == IF right < s2.heapSize /\ JsGt(At(s.arr, right), At(s.arr, l1))
                 THEN right ELSE l1
  IN IF largest # i
     THEN M_HeapSort_heapify(
            Hl(Inc([s3 EXCEPT !.arr = Swap(@, i, largest)], "swaps", 1),
               largest, "#5f27cd"),
            largest)
     ELSE s3

M_HeapSort_init(arr) ==
  M_SortingAlgorithm("M.HeapSort", arr)
    @@ [heapSize |-> Len(arr), phase |-> "build", i |-> (Len(arr) \div 2) - 1,
        currentHeapify |-> <<>>]

M_HeapSort_step(s) ==
  IF s.isDone THEN s
  ELSE
    LET s1 == Inc(s, "steps", 1)
    IN IF s1.phase = "build"
       THEN IF s1.i >= 0
            THEN Snd([M_HeapSort_heapify(s1, s1.i) EXCEPT !.i = @ - 1], "access")
            ELSE [s1 EXCEPT !.phase = "sort", !.i = Len(s1.arr) - 1]
       ELSE IF s1.i > 0
            THEN LET s2 == Hl(Hl(Inc([s1 EXCEPT !.arr = Swap(@, 0, s1.i)],
                                     "swaps", 1),
                                 0, "#ff6b6b"), s1.i, "#4ecdc4")
                     s3 == [s2 EXCEPT !.heapSize = @ - 1]
                 IN Snd([M_HeapSort_heapify(s3, 0) EXCEPT !.i = @ - 1], "swap")
            ELSE M_finish(s1)

M_InsertionSort_init(arr) ==
  M_SortingAlgorithm("M.InsertionSort", arr) @@ [i |-> 1, j |-> 1]

M_InsertionSort_step(s) ==
  IF s.isDone THEN s
  ELSE
    LET s1 == Inc(s, "steps", 1)
    IN IF s1.i >= Len(s1.arr) THEN M_finish(s1)
       ELSE
         LET s2 == Inc(Inc(Hl(Hl(s1, s1.j, "#feca57"), s1.j - 1, "#ff9ff3"),
                           "comparisons", 1), "accesses", 2)
             s3 == IF s2.j > 0 /\ JsGt(At(s2.arr, s2.j - 1), At(s2.arr, s2.j))
                   THEN [Snd(Inc([s2 EXCEPT !.arr = Swap(@, s2.j - 1, s2.j)],
                                 "swaps", 1), "swap")
                           EXCEPT !.j = @ - 1]
                   ELSE Snd([s2 EXCEPT !.i = @ + 1, !.j = s2.i + 1], "compare")
         IN HlRange(s3, 0, s3.i, "#45b7d1")

M_SelectionSort_init(arr) ==
  M_SortingAlgorithm("M.SelectionSort", arr) @@ [i |-> 0, j |-> 1, minIndex |-> 0]

M_SelectionSort_step(s) ==
  IF s.isDone THEN s
  ELSE
    LET s1 == Inc(s, "steps", 1)
        n == Len(s.arr)
    IN IF s1.i >= n - 1 THEN M_finish(s1)
       ELSE
         LET s2 == Inc(Inc(Hl(Hl(s1, s1.minIndex, "#ff6b6b"), s1.j, "#feca57"),
                           "comparisons", 1), "accesses", 2)
             s3 == IF JsLt(At(s2.arr, s2.j), At(s2.arr, s2.minIndex))
                   THEN [s2 EXCEPT !.minIndex = s2.j] ELSE s2
             s4 == [Snd(s3, "compare") EXCEPT !.j = @ + 1]
             s5 == IF s4.j >= n
                   THEN [Snd(Hl(Inc([s4 EXCEPT !.arr = Swap(@, s4.i, s4.minIndex)],
                                    "swaps", 1), s4.i, "#4ecdc4"), "swap")
                           EXCEPT !.i = @ + 1, !.minIndex = s4.i + 1,
                                  !.j = s4.i + 2]
                   ELSE s4
         IN HlRange(s5, 0, s5.i, "#45b7d1")

----------------------------------------------------------------------------
(***************************************************************************)
(* main.js: SearchAlgorithm, LinearSearch, BinarySearch.                   *)
(***************************************************************************)
M_SearchStats == [comparisons |-> 0, accesses |-> 0, steps |-> 0]

\* the fields SearchAlgorithm.init assigns, the shuffled array and the
\* chosen target given
M_SearchAlgorithm(cls, arr, target) ==
  [cls |-> cls, arr |-> arr, target |-> target, found |-> FALSE,
   foundIndex |-> 0 - 1, isDone |-> FALSE, stats |-> M_SearchStats,
   highlights |-> <<>>, out |-> <<>>]

\* rng.random() - 0.5 > 0 for the state after next()
M_positive(st) == st[1] > 32768 \/ (st[1] = 32768 /\ st[2] > 0)

RECURSIVE M_sortInner(_, _, _, _)
\* one insertion of element at a[j+1], asking the comparator for each shift
M_sortInner(a, st, j, element) ==
  IF j < 0 THEN <<Put(a, 0, element), st>>
  ELSE LET s1 == M_next(st)
       IN IF M_positive(s1)
          THEN M_sortInner(Put(a, j + 1, At(a, j)), s1, j - 1, element)
          ELSE <<Put(a, j + 1, element), s1>>

RECURSIVE M_randomSort(_, _, _)
\* [1..n].sort(() => rng.random() - 0.5): the order an inconsistent comparator
\* yields is the engine's; this is its insertion sort, the comparator called
\* once per comparison.  <<array, rng state after>>
M_randomSort(a, st, i) ==
  IF i >= Len(a) THEN <<a, st>>
  ELSE LET r == M_sortInner(a, st, i - 1, At(a, i))
       IN M_randomSort(r[1], r[2], i + 1)

\* <<arr, target>> of SearchAlgorithm.init(seed, size)
M_SearchData(seed, size) ==
  LET r == M_randomSort([k \in 1..size |-> k], M_SeededRNG(seed), 1)
      st == M_next(r[2])
  IN <<r[1], At(r[1], M_int(st, 0, size - 1))>>

M_LinearSearch_init(arr, target) ==
  M_SearchAlgorithm("M.LinearSearch", arr, target) @@ [currentIndex |-> 0]

M_LinearSearch_step(s) ==
  IF s.isDone THEN s
  ELSE
    LET s1 == Inc(s, "steps", 1)
    IN IF s1.currentIndex >= Len(s1.arr) THEN M_finish(s1)
       ELSE
         LET s2 == Inc(Inc(Hl(s1, s1.currentIndex, "#feca57"), "accesses", 1),
                       "comparisons", 1)
         IN IF At(s2.arr, s2.currentIndex) = s2.target
            THEN M_finish(Snd(Hl([s2 EXCEPT !.found = TRUE,
                                             !.foundIndex = s2.currentIndex],
                                 s2.currentIndex, "#00ff00"), "finish"))
            ELSE [Snd(s2, "compare") EXCEPT !.currentIndex = @ + 1]

\* arr.sort((a, b) => a - b) on a permutation of 1..n
SortedRange(n) == [k \in 1..n |-> k]

M_BinarySearch_init(arr, target) ==
  M_SearchAlgorithm("M.BinarySearch", SortedRange(Len(arr)), target)
    @@ [left |-> 0, right |-> Len(arr) - 1, mid |-> 0 - 1]

M_BinarySearch_step(s) ==
  IF s.isDone THEN s
  ELSE
    LET s1 == Inc(s, "steps", 1)
    IN IF s1.left > s1.right THEN M_finish(s1)
       ELSE
         LET mid == (s1.left + s1.right) \div 2
             s2 == Inc(Inc(Hl(Hl(Hl([s1 EXCEPT !.mid = mid],
                                    s1.left, "#ff9ff3"), s1.right, "#48dbfb"),
                              mid, "#feca57"), "accesses", 1), "comparisons", 1)
         IN IF At(s2.arr, mid) = s2.target
            THEN M_finish(Snd(Hl([s2 EXCEPT !.found = TRUE, !.foundIndex = mid],
                                 mid, "#00ff00"), "finish"))
            ELSE IF JsLt(At(s2.arr, mid), s2.target)
            THEN Snd([s2 EXCEPT !.left = mid + 1], "compare")
            ELSE Snd([s2 EXCEPT !.right = mid - 1], "compare")

\* SearchAlgorithm.draw: paints, then this.highlights = {}
M_SearchAlgorithm_draw(s) == [s EXCEPT !.highlights = <<>>]

M_SearchClasses == {"M.LinearSearch", "M.BinarySearch"}

M_SearchInit(cls, arr, target) ==
  CASE cls = "M.LinearSearch" -> M_LinearSearch_init(arr, target)
    [] cls = "M.BinarySearch" -> M_BinarySearch_init(arr, target)

----------------------------------------------------------------------------
(***************************************************************************)
(* main.js: GraphAlgorithm, Dijkstra, AStar, BFS, DFS.  A cell and its key *)
(* `${x},${y}` are the pair <<x, y>>; the field walls is the set of cells  *)
(* whose grid[y][x].type is 'wall'.                                        *)
(***************************************************************************)
Cells == (0..(GridSize - 1)) \X (0..(GridSize - 1))

M_start == <<1, 1>>

M_goal == <<GridSize - 2, GridSize - 2>>

\* a stepper whose step() call does not return
Hung == [cls |-> "hung", out |-> <<>>]

M_GraphStats == [nodesVisited |-> 0, pathLength |-> 0, steps |-> 0]

\* the fields GraphAlgorithm.init assigns, the generated walls given
M_GraphAlgorithm(cls, walls) ==
  [cls |-> cls, walls |-> walls \ {M_start, M_goal}, visited |-> {},
   path |-> {}, isDone |-> FALSE, stats |-> M_GraphStats, out |-> <<>>]

RECURSIVE M_wallsFrom(_, _)
\* the cells of index k.. (row by row) for which rng.random() < 0.25
M_wallsFrom(st, k) ==
  IF k >= GridSize * GridSize THEN {}
  ELSE LET s1 == M_next(st)
       IN (IF s1[1] < 16384 THEN {<<k % GridSize, k \div GridSize>>} ELSE {})
            \cup M_wallsFrom(s1, k + 1)

M_GraphData(seed) == M_wallsFrom(M_SeededRNG(seed), 0)

\* nx >= 0 && nx < gridSize && ny >= 0 && ny < gridSize && type !== 'wall'
M_open(s, c) == c \in Cells /\ c \notin s.walls

RECURSIVE SortDescBy(_, _)
\* q.sort((a, b) => b[fld] - a[fld]): descending, equal keys keep their order
SortDescBy(q, fld) ==
  IF q = <<>> THEN <<>>
  ELSE LET r == SortDescBy(SubSeq(q, 1, Len(q) - 1), fld)
           e == q[Len(q)]
           p == Cardinality({k \in 1..Len(r) : r[k][fld] >= e[fld]})
       IN SubSeq(r, 1, p) \o <<e>> \o SubSeq(r, p + 1, Len(r))

RECURSIVE M_pathLoop(_, _, _)
\* while (cameFrom.has(currentKey)) { path.add; currentKey = prev; pathLength++ }
M_pathLoop(s, currentKey, fuel) ==
  IF currentKey \notin DOMAIN s.cameFrom THEN s
  ELSE IF fuel = 0 THEN Hung
  ELSE M_pathLoop([Inc(s, "pathLength", 1) EXCEPT !.path = @ \cup {currentKey}],
                  s.cameFrom[currentKey], fuel - 1)

\* a reconstruction that stops short of the start cell
M_reconstructPath_noStart(s) == M_pathLoop(s, M_goal, GridSize * GridSize)

M_reconstructPath(s) ==
  LET r == M_pathLoop(s, M_goal, GridSize * GridSize)
  IN IF r.cls = "hung" THEN Hung ELSE [r EXCEPT !.path = @ \cup {M_start}]

\* reconstruct the path, then _finish()
M_goalReached(s) ==
  LET r == M_reconstructPath(s) IN IF r.cls = "hung" THEN Hung ELSE M_finish(r)

M_dirs == <<<<0, 1>>, <<1, 0>>, <<0, 0 - 1>>, <<0 - 1, 0>>>>

M_Dijkstra_init(walls) ==
  M_GraphAlgorithm("M.Dijkstra", walls)
    @@ [frontier |-> <<[x |-> M_start[1], y |-> M_start[2], dist |-> 0]>>,
        cameFrom |-> <<>>, distances |-> (M_start :> 0)]

RECURSIVE M_Dijkstra_neighbors(_, _, _)
M_Dijkstra_neighbors(s, current, d) ==
  IF d > Len(M_dirs) THEN s
  ELSE
    LET nk == <<current.x + M_dirs[d][1], current.y + M_dirs[d][2]>>
        newDist == current.dist + 1
    IN IF M_open(s, nk)
          /\ (nk \notin DOMAIN s.distances \/ newDist < s.distances[nk])
       THEN M_Dijkstra_neighbors(
              [s EXCEPT !.distances = (nk :> newDist) @@ @,
                        !.cameFrom = (nk :> <<current.x, current.y>>) @@ @,
                        !.frontier = Push(@, [x |-> nk[1], y |-> nk[2],
                                              dist |-> newDist])],
              current, d + 1)
       ELSE M_Dijkstra_neighbors(s, current, d + 1)

M_Dijkstra_step(s) ==
  IF s.isDone \/ s.frontier = <<>>
  THEN IF ~s.isDone THEN M_finish(s) ELSE s
  ELSE
    LET sorted == SortDescBy(s.frontier, "dist")
        current == Top(sorted)
        currentKey == <<current.x, current.y>>
        s1 == [Inc(s, "steps", 1) EXCEPT !.frontier = Pop(sorted)]
    IN IF currentKey \in s1.visited THEN Snd(s1, "access")
       ELSE
         LET s2 == Snd(Inc([s1 EXCEPT !.visited = @ \cup {currentKey}],
                           "nodesVisited", 1), "compare")
         IN IF currentKey = M_goal THEN M_goalReached(s2)
            ELSE M_Dijkstra_neighbors(s2, current, 1)

M_AStar_init(walls) ==
  M_GraphAlgorithm("M.AStar", walls)
    @@ [openSet |-> <<[x |-> M_start[1], y |-> M_start[2],
                       f |-> 0, g |-> 0, h |-> 0]>>,
        closedSet |-> {}, cameFrom |-> <<>>]

Abs(v) == IF v < 0 THEN 0 - v ELSE v

\* openSet.find(node => node.x === nx && node.y === ny): its index, 0 if none
M_AStar_find(q, nk) ==
  LET hits == {k \in 1..Len(q) : q[k].x = nk[1] /\ q[k].y = nk[2]}
  IN IF hits = {} THEN 0 ELSE CHOOSE k \in hits : \A m \in hits : k <= m

RECURSIVE M_AStar_neighbors(_, _, _)
M_AStar_neighbors(s, current, d) ==
  IF d > Len(M_dirs) THEN s
  ELSE
    LET nk == <<current.x + M_dirs[d][1], current.y + M_dirs[d][2]>>
        g == current.g + 1
        h == Abs(nk[1] - M_goal[1]) + Abs(nk[2] - M_goal[2])
        f == g + h
        existing == M_AStar_find(s.openSet, nk)
    IN IF M_open(s, nk) /\ nk \notin s.closedSet
          /\ (existing = 0 \/ g < s.openSet[existing].g)
       THEN M_AStar_neighbors(
              [s EXCEPT !.openSet =
                          IF existing # 0
                          THEN [@ EXCEPT ![existing].g = g, ![existing].f = f]
                          ELSE Push(@, [x |-> nk[1], y |-> nk[2],
                                        f |-> f, g |-> g, h |-> h]),
                        !.cameFrom = (nk :> <<current.x, current.y>>) @@ @],
              current, d + 1)
       ELSE M_AStar_neighbors(s, current, d + 1)

M_AStar_step(s) ==
  IF s.isDone \/ s.openSet = <<>>
  THEN IF ~s.isDone THEN M_finish(s) ELSE s
  ELSE
    LET sorted == SortDescBy(s.openSet, "f")
        current == Top(sorted)
        currentKey == <<current.x, current.y>>
        s1 == Snd(Inc([Inc(s, "steps", 1) EXCEPT
                          !.openSet = Pop(sorted),
                          !.closedSet = @ \cup {currentKey},
                          !.visited = @ \cup {currentKey}],
                      "nodesVisited", 1), "compare")
    IN IF currentKey = M_goal THEN M_goalReached(s1)
       ELSE M_AStar_neighbors(s1, current, 1)

M_BFS_init(walls) ==
  [M_GraphAlgorithm("M.BFS", walls) EXCEPT !.visited = {M_start}]
    @@ [frontier |-> <<M_start>>, cameFrom |-> <<>>]

RECURSIVE M_BFS_neighbors(_, _, _)
M_BFS_neighbors(s, current, d) ==
  IF d > Len(M_dirs) THEN s
  ELSE
    LET nk == <<current[1] + M_dirs[d][1], current[2] + M_dirs[d][2]>>
    IN IF M_open(s, nk) /\ nk \notin s.visited
       THEN M_BFS_neighbors([s EXCEPT !.visited = @ \cup {nk},
                                      !.cameFrom = (nk :> current) @@ @,
                                      !.frontier = Push(@, nk)],
                            current, d + 1)
       ELSE M_BFS_neighbors(s, current, d + 1)

M_BFS_step(s) ==
  IF s.isDone \/ s.frontier = <<>>
  THEN IF ~s.isDone THEN M_finish(s) ELSE s
  ELSE
    LET current == Head(s.frontier)
        s1 == Snd(Inc([Inc(s, "steps", 1) EXCEPT !.frontier = Tail(@)],
                      "nodesVisited", 1), "access")
    IN IF current = M_goal THEN M_goalReached(s1)
       ELSE M_BFS_neighbors(s1, current, 1)

M_DFS_dirs == <<<<0 - 1, 0>>, <<0, 0 - 1>>, <<1, 0>>, <<0, 1>>>>

M_DFS_init(walls) ==
  M_GraphAlgorithm("M.DFS", walls)
    @@ [frontier |-> <<M_start>>, cameFrom |-> <<>>]

RECURSIVE M_DFS_neighbors_anyCell(_, _, _)
\* the neighbours loop without the !visited.has(neighborKey) test
M_DFS_neighbors_anyCell(s, current, d) ==
  IF d > Len(M_DFS_dirs) THEN s
  ELSE
    LET nk == <<current[1] + M_DFS_dirs[d][1], current[2] + M_DFS_dirs[d][2]>>
    IN IF M_open(s, nk)
       THEN M_DFS_neighbors_anyCell([s EXCEPT !.cameFrom = (nk :> current) @@ @,
                                      !.frontier = Push(@, nk)],
                            current, d + 1)
       ELSE M_DFS_neighbors_anyCell(s, current, d + 1)

RECURSIVE M_DFS_neighbors(_, _, _)
M_DFS_neighbors(s, current, d) ==
  IF d > Len(M_DFS_dirs) THEN s
  ELSE
    LET nk == <<current[1] + M_DFS_dirs[d][1], current[2] + M_DFS_dirs[d][2]>>
    IN IF M_open(s, nk) /\ nk \notin s.visited
       THEN M_DFS_neighbors([s EXCEPT !.cameFrom = (nk :> current) @@ @,
                                      !.frontier = Push(@, nk)],
                            current, d + 1)
       ELSE M_DFS_neighbors(s, current, d + 1)

M_DFS_step(s) ==
  IF s.isDone \/ s.frontier = <<>>
  THEN IF ~s.isDone THEN M_finish(s) ELSE s
  ELSE
    LET current == Top(s.frontier)
        s1 == [Inc(s, "steps", 1) EXCEPT !.frontier = Pop(@)]
    IN IF current \in s1.visited THEN s1
       ELSE
         LET s2 == Snd(Inc([s1 EXCEPT !.visited = @ \cup {current}],
                           "nodesVisited", 1), "access")
         IN IF current = M_goal THEN M_goalReached(s2)
            ELSE M_DFS_neighbors(s2, current, 1)

\* GraphAlgorithm.draw: paints only
M_GraphAlgorithm_draw(s) == s

M_GraphClasses == {"M.Dijkstra", "M.AStar", "M.BFS", "M.DFS"}

M_GraphInit(cls, walls) ==
  CASE cls = "M.Dijkstra" -> M_Dijkstra_init(walls)
    [] cls = "M.AStar" -> M_AStar_init(walls)
    [] cls = "M.BFS" -> M_BFS_init(walls)
    [] cls = "M.DFS" -> M_DFS_init(walls)

\* the wall sets explored: every one of at most MaxWalls cells
WallSets == {w \in SUBSET (Cells \ {M_start, M_goal}) : Cardinality(w) <= MaxWalls}

----------------------------------------------------------------------------
(***************************************************************************)
(* main.js: TreeNode, TreeAlgorithm and the three traversals.  nodes is    *)
(* the array of TreeNode objects; a reference to a node is its 1-based     *)
(* position in nodes, 0 is the null reference.                             *)
(***************************************************************************)
M_TreeCap == 31

\* a reference to a TreeNode of a tree that init() has since replaced
stale == 0 - 3

M_TreeNode(value) == [value |-> value, left |-> 0, right |-> 0, visited |-> FALSE]

RECURSIVE M_insertNode_dups(_, _, _)
\* an insertion that sends an equal value to the right subtree
M_insertNode_dups(nodes, root, value) ==
  IF root = 0 THEN <<Append(nodes, M_TreeNode(value)), Len(nodes) + 1>>
  ELSE IF value < nodes[root].value
  THEN LET r == M_insertNode_dups(nodes, nodes[root].left, value)
       IN <<[r[1] EXCEPT ![root].left = r[2]], root>>
  ELSE LET r == M_insertNode_dups(nodes, nodes[root].right, value)
       IN <<[r[1] EXCEPT ![root].right = r[2]], root>>

RECURSIVE M_insertNode(_, _, _)
\* TreeAlgorithm._insertNode: <<nodes after, the reference returned>>
M_insertNode(nodes, root, value) ==
  IF root = 0 THEN <<Append(nodes, M_TreeNode(value)), Len(nodes) + 1>>
  ELSE IF value < nodes[root].value
  THEN LET r == M_insertNode(nodes, nodes[root].left, value)
       IN <<[r[1] EXCEPT ![root].left = r[2]], root>>
  ELSE IF value > nodes[root].value
  THEN LET r == M_insertNode(nodes, nodes[root].right, value)
       IN <<[r[1] EXCEPT ![root].right = r[2]], root>>
  ELSE <<nodes, root>>

RECURSIVE M_buildTree(_, _, _)
\* for (const value of values) root = _insertNode(root, value): <<nodes, root>>
M_buildTree(values, nodes, root) ==
  IF values = <<>> THEN <<nodes, root>>
  ELSE LET r == M_insertNode(nodes, root, Head(values))
       IN M_buildTree(Tail(values), r[1], r[2])

M_TreeStats == [nodesVisited |-> 0, steps |-> 0]

\* the fields TreeAlgorithm.init assigns, the generated values given
M_TreeAlgorithm(cls, values) ==
  LET b == M_buildTree(values, <<>>, 0)
  IN [cls |-> cls, root |-> b[2], nodes |-> b[1], traversalOrder |-> <<>>,
      isDone |-> FALSE, stats |-> M_TreeStats, out |-> <<>>]

M_TreeData(seed, size) ==
  M_ints(M_SeededRNG(seed), IF size < M_TreeCap THEN size ELSE M_TreeCap, 1, 99)[1]

M_InOrderTraversal_init(values) ==
  LET s == M_TreeAlgorithm("M.InOrderTraversal", values)
  IN s @@ [stack |-> <<>>, currentNode |-> s.root]

\* a traversal that forgets the right subtree of the node it visits
M_InOrderTraversal_step_noRight(s) ==
  IF s.isDone THEN s
  ELSE
    LET s1 == Inc(s, "steps", 1)
    IN IF s1.currentNode = 0 /\ s1.stack = <<>> THEN M_finish(s1)
       ELSE IF s1.currentNode # 0
       THEN Snd([s1 EXCEPT !.stack = Push(@, s1.currentNode),
                           !.currentNode = s1.nodes[s1.currentNode].left],
                "access")
       ELSE
         LET c == Top(s1.stack)
         IN Snd(Inc([s1 EXCEPT !.stack = Pop(@),
                               !.nodes[c].visited = TRUE,
                               !.traversalOrder = Append(@, s1.nodes[c].value),
                               !.currentNode = 0],
                    "nodesVisited", 1), "compare")

M_InOrderTraversal_step(s) ==
  IF s.isDone THEN s
  ELSE
    LET s1 == Inc(s, "steps", 1)
    IN IF s1.currentNode = 0 /\ s1.stack = <<>> THEN M_finish(s1)
       ELSE IF s1.currentNode # 0
       THEN Snd([s1 EXCEPT !.stack = Push(@, s1.currentNode),
                           !.currentNode = s1.nodes[s1.currentNode].left],
                "access")
       ELSE
         LET c == Top(s1.stack)
         IN Snd(Inc([s1 EXCEPT !.stack = Pop(@),
                               !.nodes[c].visited = TRUE,
                               !.traversalOrder = Append(@, s1.nodes[c].value),
                               !.currentNode = s1.nodes[c].right],
                    "nodesVisited", 1), "compare")

M_PreOrderTraversal_init(values) ==
  LET s == M_TreeAlgorithm("M.PreOrderTraversal", values)
  IN s @@ [stack |-> IF s.root # 0 THEN <<s.root>> ELSE <<>>]

\* a traversal that pushes the left child before the right one
M_PreOrderTraversal_step_leftFirst(s) ==
  IF s.isDone THEN s
  ELSE
    LET s1 == Inc(s, "steps", 1)
    IN IF s1.stack = <<>> THEN M_finish(s1)
       ELSE
         LET c == Top(s1.stack)
             s2 == Snd(Inc([s1 EXCEPT !.stack = Pop(@),
                                      !.currentNode = c,
                                      !.nodes[c].visited = TRUE,
                                      !.traversalOrder = Append(@, s1.nodes[c].value)],
                           "nodesVisited", 1), "compare")
             s3 == IF s2.nodes[c].left # 0
                   THEN Snd([s2 EXCEPT !.stack = Push(@, s2.nodes[c].left)], "access")
                   ELSE s2
         IN IF s3.nodes[c].right # 0
            THEN Snd([s3 EXCEPT !.stack = Push(@, s3.nodes[c].right)], "access")
            ELSE s3

M_PreOrderTraversal_step(s) ==
  IF s.isDone THEN s
  ELSE
    LET s1 == Inc(s, "steps", 1)
    IN IF s1.stack = <<>> THEN M_finish(s1)
       ELSE
         LET c == Top(s1.stack)
             s2 == Snd(Inc([s1 EXCEPT !.stack = Pop(@),
                                      !.currentNode = c,
                                      !.nodes[c].visited = TRUE,
                                      !.traversalOrder = Append(@, s1.nodes[c].value)],
                           "nodesVisited", 1), "compare")
             s3 == IF s2.nodes[c].right # 0
                   THEN Snd([s2 EXCEPT !.stack = Push(@, s2.nodes[c].right)], "access")
                   ELSE s2
         IN IF s3.nodes[c].left # 0
            THEN Snd([s3 EXCEPT !.stack = Push(@, s3.nodes[c].left)], "access")
            ELSE s3

M_PostOrderTraversal_init(values) ==
  LET s == M_TreeAlgorithm("M.PostOrderTraversal", values)
  IN s @@ [stack1 |-> IF s.root # 0 THEN <<s.root>> ELSE <<>>,
           stack2 |-> <<>>, phase |-> "traverse"]

M_PostOrderTraversal_step(s) ==
  IF s.isDone THEN s
  ELSE
    LET s1 == Inc(s, "steps", 1)
    IN IF s1.phase = "traverse"
       THEN IF s1.stack1 # <<>>
            THEN LET c == Top(s1.stack1)
                     s2 == Snd([s1 EXCEPT !.stack1 = Pop(@), !.currentNode = c,
                                          !.stack2 = Push(@, c)], "access")
                     s3 == IF s2.nodes[c].left # 0
                           THEN [s2 EXCEPT !.stack1 = Push(@, s2.nodes[c].left)]
                           ELSE s2
                 IN IF s3.nodes[c].right # 0
                    THEN [s3 EXCEPT !.stack1 = Push(@, s3.nodes[c].right)]
                    ELSE s3
            ELSE [s1 EXCEPT !.phase = "visit"]
       ELSE IF s1.stack2 # <<>>
       THEN LET c == Top(s1.stack2)
            IN Snd(Inc([s1 EXCEPT !.stack2 = Pop(@), !.currentNode = c,
                                  !.nodes[c].visited = TRUE,
                                  !.traversalOrder = Append(@, s1.nodes[c].value)],
                       "nodesVisited", 1), "compare")
       ELSE M_finish(s1)

\* TreeAlgorithm.draw: paints only
M_TreeAlgorithm_draw(s) == s

M_TreeClasses == {"M.InOrderTraversal", "M.PreOrderTraversal", "M.PostOrderTraversal"}

M_TreeInit(cls, values) ==
  CASE cls = "M.InOrderTraversal" -> M_InOrderTraversal_init(values)
    [] cls = "M.PreOrderTraversal" -> M_PreOrderTraversal_init(values)
    [] cls = "M.PostOrderTraversal" -> M_PostOrderTraversal_init(values)

----------------------------------------------------------------------------
(***************************************************************************)
(* part_000: SeededRNG, Algorithm, SortingAlgorithm and its ten sorting    *)
(* steppers.  A highlight colour this.colors.c is the string c.            *)
(***************************************************************************)
P_next(st) == M_next(st)

P_int(st, min, max) == M_int(st, min, max)

P_finish(s) == Snd([s EXCEPT !.isComplete = TRUE], "complete")

P_SortStats == [comparisons |-> 0, swaps |-> 0, accesses |-> 0, steps |-> 0]

\* SortingAlgorithm.init with the generated array given
P_SortingAlgorithm(cls, array) ==
  [cls |-> cls, array |-> array, isComplete |-> FALSE, stats |-> P_SortStats,
   highlights |-> <<>>, out |-> <<>>]

P_SortingData(seed, size) == M_ints(M_SeededRNG(seed), size, 5, 100)[1]

P_BubbleSort_init(array) ==
  P_SortingAlgorithm("P.BubbleSort", array) @@ [i |-> 0, j |-> 0, n |-> Len(array)]

\* a step() whose passes all run to the end of the array
P_BubbleSort_step_fullPass(s) ==
  IF s.isComplete THEN s
  ELSE
    LET s1 == Inc(s, "steps", 1)
    IN IF s1.i >= s1.n - 1 THEN P_finish(s1)
       ELSE IF s1.j >= s1.n - 1
       THEN [Hl(s1, s1.n - 1 - s1.i, "sorted") EXCEPT !.i = @ + 1, !.j = 0]
       ELSE
         LET s2 == Inc(Inc(Hl(Hl(s1, s1.j, "compare"), s1.j + 1, "compare"),
                           "comparisons", 1), "accesses", 2)
             s3 == IF JsGt(At(s2.array, s2.j), At(s2.array, s2.j + 1))
                   THEN Snd(Hl(Hl(Inc([s2 EXCEPT !.array = Swap(@, s2.j, s2.j + 1)],
                                      "swaps", 1), s2.j, "swap"), s2.j + 1, "swap"),
                            "swap")
                   ELSE Snd(s2, "compare")
         IN [s3 EXCEPT !.j = @ + 1]

P_BubbleSort_step(s) ==
  IF s.isComplete THEN s
  ELSE
    LET s1 == Inc(s, "steps", 1)
    IN IF s1.i >= s1.n - 1 THEN P_finish(s1)
       ELSE IF s1.j >= s1.n - 1 - s1.i
       THEN [Hl(s1, s1.n - 1 - s1.i, "sorted") EXCEPT !.i = @ + 1, !.j = 0]
       ELSE
         LET s2 == Inc(Inc(Hl(Hl(s1, s1.j, "compare"), s1.j + 1, "compare"),
                           "comparisons", 1), "accesses", 2)
             s3 == IF JsGt(At(s2.array, s2.j), At(s2.array, s2.j + 1))
                   THEN Snd(Hl(Hl(Inc([s2 EXCEPT !.array = Swap(@, s2.j, s2.j + 1)],
                                      "swaps", 1), s2.j, "swap"), s2.j + 1, "swap"),
                            "swap")
                   ELSE Snd(s2, "compare")
         IN [s3 EXCEPT !.j = @ + 1]

P_CocktailSort_init(array) ==
  P_SortingAlgorithm("P.CocktailSort", array)
    @@ [start |-> 0, end |-> Len(array) - 1, swapped |-> TRUE,
        direction |-> 1, i |-> 0]

\* one compare-and-swap of positions i and i + d, then i += d
P_CocktailSort_pass(s, d) ==
  LET s1 == Inc(Inc(Hl(Hl(s, s.i, "compare"), s.i + d, "compare"),
                    "comparisons", 1), "accesses", 2)
      outOfOrder == IF d = 1 THEN JsGt(At(s1.array, s1.i), At(s1.array, s1.i + 1))
                    ELSE JsLt(At(s1.array, s1.i), At(s1.array, s1.i - 1))
      s2 == IF outOfOrder
            THEN Snd(Hl(Hl(Inc([s1 EXCEPT !.array = Swap(@, s1.i, s1.i + d),
                                          !.swapped = TRUE], "swaps", 1),
                           s1.i, "swap"), s1.i + d, "swap"), "swap")
            ELSE Snd(s1, "compare")
  IN [s2 EXCEPT !.i = @ + d]

P_CocktailSort_step(s) ==
  IF s.isComplete \/ ~s.swapped THEN s
  ELSE
    LET s1 == Inc(s, "steps", 1)
    IN IF s1.start >= s1.end THEN P_finish(s1)
       ELSE
         LET s2 == [s1 EXCEPT !.swapped = FALSE]
         IN IF s2.direction = 1
            THEN IF s2.i < s2.end THEN P_CocktailSort_pass(s2, 1)
                 ELSE [Hl(s2, s2.end, "sorted") EXCEPT
                         !.end = @ - 1, !.direction = 0 - 1, !.i = s2.end - 1]
            ELSE IF s2.i > s2.start THEN P_CocktailSort_pass(s2, 0 - 1)
                 ELSE [Hl(s2, s2.start, "sorted") EXCEPT
                         !.start = @ + 1, !.direction = 1, !.i = s2.start + 1]

P_SelectionSort_init(array) ==
  P_SortingAlgorithm("P.SelectionSort", array)
    @@ [i |-> 0, j |-> 1, minIndex |-> 0, n |-> Len(array)]

P_SelectionSort_step(s) ==
  IF s.isComplete THEN s
  ELSE
    LET s1 == Inc(s, "steps", 1)
    IN IF s1.i >= s1.n - 1 THEN P_finish(s1)
       ELSE IF s1.j >= s1.n
       THEN LET s2 == IF s1.minIndex # s1.i
                      THEN Snd(Inc([s1 EXCEPT !.array = Swap(@, s1.i, s1.minIndex)],
                                   "swaps", 1), "swap")
                      ELSE s1
            IN [Hl(s2, s2.i, "sorted") EXCEPT
                  !.i = @ + 1, !.minIndex = s2.i + 1, !.j = s2.i + 2]
       ELSE
         LET s2 == Inc(Inc(Hl(Hl(s1, s1.minIndex, "compare"), s1.j, "swap"),
                           "comparisons", 1), "accesses", 2)
             s3 == IF JsLt(At(s2.array, s2.j), At(s2.array, s2.minIndex))
                   THEN [s2 EXCEPT !.minIndex = s2.j] ELSE s2
         IN [Snd(s3, "compare") EXCEPT !.j = @ + 1]

P_InsertionSort_init(array) ==
  P_SortingAlgorithm("P.InsertionSort", array) @@ [i |-> 1, j |-> 1, key |-> 0]

P_InsertionSort_step(s) ==
  IF s.isComplete THEN s
  ELSE
    LET s1 == Inc(s, "steps", 1)
    IN IF s1.i >= Len(s1.array) THEN P_finish(s1)
       ELSE
         LET s2 == IF s1.j = s1.i
                   THEN Hl([s1 EXCEPT !.key = At(s1.array, s1.i)], s1.i, "swap")
                   ELSE s1
             s3 == Inc(Inc(Hl(Hl(s2, s2.j, "compare"), s2.j - 1, "compare"),
                           "comparisons", 1), "accesses", 2)
         IN IF s3.j > 0 /\ JsGt(At(s3.array, s3.j - 1), s3.key)
            THEN Snd([Inc([s3 EXCEPT !.array = Put(@, s3.j, At(s3.array, s3.j - 1))],
                          "swaps", 1) EXCEPT !.j = @ - 1], "swap")
            ELSE Snd([Hl([s3 EXCEPT !.array = Put(@, s3.j, s3.key)], s3.j, "sorted")
                        EXCEPT !.i = @ + 1, !.j = s3.i + 1], "compare")

P_ShellSort_init(array) ==
  P_SortingAlgorithm("P.ShellSort", array)
    @@ [n |-> Len(array), gap |-> Len(array) \div 2, i |-> Len(array) \div 2,
        temp |-> 0, j |-> 0]

RECURSIVE P_ShellSort_while(_)
\* while (j >= gap && array[j - gap] > temp) { shift; j -= gap }
P_ShellSort_while(s) ==
  IF s.j >= s.gap /\ JsGt(At(s.array, s.j - s.gap), s.temp)
  THEN P_ShellSort_while(
         Snd([Inc(Inc(Inc(Hl(Hl([s EXCEPT !.array =
                                     Put(@, s.j, At(s.array, s.j - s.gap))],
                                s.j, "compare"), s.j - s.gap, "compare"),
                          "comparisons", 1), "accesses", 2), "swaps", 1)
                EXCEPT !.j = @ - s.gap], "swap"))
  ELSE s

P_ShellSort_step(s) ==
  IF s.isComplete THEN s
  ELSE
    LET s1 == Inc(s, "steps", 1)
    IN IF s1.gap = 0 THEN P_finish(s1)
       ELSE IF s1.i >= s1.n
       THEN [s1 EXCEPT !.gap = @ \div 2, !.i = s1.gap \div 2]
       ELSE
         LET s2 == P_ShellSort_while(
                     Hl([s1 EXCEPT !.temp = At(s1.array, s1.i), !.j = s1.i],
                        s1.i, "current"))
         IN Snd([Hl([s2 EXCEPT !.array = Put(@, s2.j, s2.temp)], s2.j, "sorted")
                   EXCEPT !.i = @ + 1], "compare")

P_QuickSort_init(array) ==
  P_SortingAlgorithm("P.QuickSort", array)
    @@ [stack |-> <<[low |-> 0, high |-> Len(array) - 1]>>, currentPivot |-> 0 - 1]

RECURSIVE P_partitionLoop(_, _, _, _, _)
\* for (j = low; j < high; j++) ...: <<stepper after, i after>>
P_partitionLoop(s, pivot, i, j, high) ==
  IF j >= high THEN <<s, i>>
  ELSE
    LET s1 == Hl(Inc(Inc(s, "comparisons", 1), "accesses", 2), j, "swap")
    IN IF JsLt(At(s1.array, j), pivot)
       THEN P_partitionLoop(
              Hl(Inc([s1 EXCEPT !.array = Swap(@, i + 1, j)], "swaps", 1),
                 i + 1, "secondary"),
              pivot, i + 1, j + 1, high)
       ELSE P_partitionLoop(s1, pivot, i, j + 1, high)

\* QuickSort.partition: <<stepper after, pivot index returned>>
P_QuickSort_partition(s, low, high) ==
  LET r == P_partitionLoop(Hl(s, high, "current"), At(s.array, high),
                           low - 1, low, high)
      i == r[2]
  IN <<Inc([r[1] EXCEPT !.array = Swap(@, i + 1, high)], "swaps", 1), i + 1>>

P_QuickSort_step(s) ==
  IF s.isComplete THEN s
  ELSE
    LET s1 == Inc(s, "steps", 1)
    IN IF s1.stack = <<>> THEN P_finish(s1)
       ELSE
         LET top == Top(s1.stack)
             s2 == [s1 EXCEPT !.stack = Pop(@)]
         IN IF top.low < top.high
            THEN LET r == P_QuickSort_partition(s2, top.low, top.high)
                     pivotIndex == r[2]
                 IN Snd(Hl([r[1] EXCEPT !.stack =
                              Push(Push(@, [low |-> top.low, high |-> pivotIndex - 1]),
                                   [low |-> pivotIndex + 1, high |-> top.high])],
                           pivotIndex, "sorted"), "swap")
            ELSE s2

P_MergeSort_init(array) ==
  P_SortingAlgorithm("P.MergeSort", array)
    @@ [stack |-> <<[left |-> 0, right |-> Len(array) - 1, phase |-> "divide"]>>,
        mergeStack |-> <<>>]

P_MergeSort_performDivideStep(s) ==
  LET top == Top(s.stack)
      s1 == [s EXCEPT !.stack = Pop(@)]
      mid == (top.left + top.right) \div 2
  IN IF top.left < top.right
     THEN IF top.phase = "divide"
          THEN [s1 EXCEPT !.stack =
                  Push(Push(Push(@, [left |-> top.left, right |-> top.right,
                                     phase |-> "merge"]),
                            [left |-> mid + 1, right |-> top.right,
                             phase |-> "divide"]),
                       [left |-> top.left, right |-> mid, phase |-> "divide"])]
          ELSE [s1 EXCEPT !.mergeStack =
                  Push(@, [left |-> top.left, mid |-> mid, right |-> top.right])]
     ELSE s1

RECURSIVE P_mergeLoop(_, _, _, _, _, _)
\* the three while loops of performMergeStep
P_mergeLoop(s, leftArray, rightArray, i, j, k) ==
  IF i < Len(leftArray) /\ j < Len(rightArray)
  THEN LET s1 == Inc(Inc(s, "comparisons", 1), "accesses", 2)
       IN IF JsLe(At(leftArray, i), At(rightArray, j))
          THEN P_mergeLoop(Hl([s1 EXCEPT !.array = Put(@, k, At(leftArray, i))],
                              k, "sorted"),
                           leftArray, rightArray, i + 1, j, k + 1)
          ELSE P_mergeLoop(Hl([s1 EXCEPT !.array = Put(@, k, At(rightArray, j))],
                              k, "sorted"),
                           leftArray, rightArray, i, j + 1, k + 1)
  ELSE IF i < Len(leftArray)
  THEN P_mergeLoop(Hl([s EXCEPT !.array = Put(@, k, At(leftArray, i))], k, "sorted"),
                   leftArray, rightArray, i + 1, j, k + 1)
  ELSE IF j < Len(rightArray)
  THEN P_mergeLoop(Hl([s EXCEPT !.array = Put(@, k, At(rightArray, j))], k, "sorted"),
                   leftArray, rightArray, i, j + 1, k + 1)
  ELSE s

P_MergeSort_performMergeStep(s) ==
  LET top == Top(s.mergeStack)
      s1 == HlRange(HlRange([s EXCEPT !.mergeStack = Pop(@)],
                            top.left, top.mid + 1, "compare"),
                    top.mid + 1, top.right + 1, "swap")
      leftArray == SubSeq(s1.array, top.left + 1, top.mid + 1)
      rightArray == SubSeq(s1.array, top.mid + 2, top.right + 1)
  IN Snd(P_mergeLoop(s1, leftArray, rightArray, 0, 0, top.left), "swap")

P_MergeSort_step(s) ==
  IF s.isComplete THEN s
  ELSE
    LET s1 == Inc(s, "steps", 1)
    IN IF s1.stack = <<>> /\ s1.mergeStack = <<>> THEN P_finish(s1)
       ELSE IF s1.mergeStack # <<>> THEN P_MergeSort_performMergeStep(s1)
       ELSE P_MergeSort_performDivideStep(s1)

P_HeapSort_init(array) ==
  P_SortingAlgorithm("P.HeapSort", array)
    @@ [n |-> Len(array), phase |-> "build", i |-> (Len(array) \div 2) - 1]

\* HeapSort.heapify(n, i): one comparison with each child, at most one swap
P_HeapSort_heapify(s, n, i) ==
  LET left == 2 * i + 1
      right == 2 * i + 2
      s1 == Hl(s, i, "compare")
      s2 == IF left < n THEN Hl(s1, left, "swap") ELSE s1
      s3 == IF right < n THEN Hl(s2, right, "swap") ELSE s2
      s4 == IF left < n THEN Inc(Inc(s3, "comparisons", 1), "accesses", 2) ELSE s3
      l1 == IF left < n /\ JsGt(At(s.array, left), At(s.array, i)) THEN left ELSE i
      s5 == IF right < n THEN Inc(Inc(s4, "comparisons", 1), "accesses", 2) ELSE s4
      largest == IF right < n /\ JsGt(At(s.array, right), At(s.array, l1))
                 THEN right ELSE l1
  IN IF largest # i
     THEN Hl(Inc([s5 EXCEPT !.array = Swap(@, i, largest)], "swaps", 1),
             largest, "current")
     ELSE s5

P_HeapSort_step(s) ==
  IF s.isComplete THEN s
  ELSE
    LET s1 == Inc(s, "steps", 1)
    IN IF s1.phase = "build"
       THEN IF s1.i >= 0
            THEN [P_HeapSort_heapify(s1, s1.n, s1.i) EXCEPT !.i = @ - 1]
            ELSE [s1 EXCEPT !.phase = "sort", !.i = s1.n - 1]
       ELSE IF s1.i > 0
       THEN LET s2 == Hl(Inc([s1 EXCEPT !.array = Swap(@, 0, s1.i)], "swaps", 1),
                         s1.i, "sorted")
            IN Snd([P_HeapSort_heapify(s2, s2.i, 0) EXCEPT !.i = @ - 1], "swap")
       ELSE P_finish(Hl(s1, 0, "sorted"))

RECURSIVE SeqMax(_)
\* Math.max(...a) of a non-empty array
SeqMax(a) ==
  IF Len(a) = 1 THEN a[1]
  ELSE LET m == SeqMax(Tail(a)) IN IF a[1] > m THEN a[1] ELSE m

\* CountingSort.init; for an empty array new Array(-Infinity + 1) throws
P_CountingSort_init(array) ==
  P_SortingAlgorithm("P.CountingSort", array)
    @@ [max |-> SeqMax(array), count |-> [k \in 1..(SeqMax(array) + 1) |-> 0],
        output |-> [k \in 1..Len(array) |-> undefined], phase |-> "count", i |-> 0]

P_CountingSort_step(s) ==
  IF s.isComplete THEN s
  ELSE
    LET s1 == Inc(s, "steps", 1)
        v == At(s1.array, s1.i)
    IN IF s1.phase = "count"
       THEN IF s1.i < Len(s1.array)
            THEN Snd([Inc(Hl([s1 EXCEPT !.count = Put(@, v, At(@, v) + 1)],
                             s1.i, "current"), "accesses", 1)
                        EXCEPT !.i = @ + 1], "access")
            ELSE [s1 EXCEPT !.phase = "cumulative", !.i = 1]
       ELSE IF s1.phase = "cumulative"
       THEN IF s1.i <= s1.max
            THEN [s1 EXCEPT !.count = Put(@, s1.i, At(@, s1.i) + At(@, s1.i - 1)),
                            !.i = @ + 1]
            ELSE [s1 EXCEPT !.phase = "output", !.i = Len(s1.array) - 1]
       ELSE IF s1.i >= 0
       THEN Snd([Inc(Hl([s1 EXCEPT !.output = Put(@, At(s1.count, v) - 1, v),
                                   !.count = Put(@, v, At(@, v) - 1)],
                        s1.i, "swap"), "accesses", 1)
                   EXCEPT !.i = @ - 1], "swap")
       ELSE P_finish(HlRange([s1 EXCEPT !.array = s1.output, !.highlights = <<>>],
                             0, Len(s1.output), "sorted"))

\* RadixSort.init; Math.max() of an empty array is -Infinity, below every digit test
P_RadixSort_init(array) ==
  P_SortingAlgorithm("P.RadixSort", array)
    @@ [max |-> IF array = <<>> THEN undefined ELSE SeqMax(array),
        exp |-> 1, phase |-> "sort"]

P_digit(v, exp) == (v \div exp) % 10

RECURSIVE P_placeLoop(_, _, _, _, _)
\* for (i = n - 1; i >= 0; i--) { output[count[d] - 1] = array[i]; count[d]-- }
P_placeLoop(array, exp, output, count, i) ==
  IF i < 0 THEN output
  ELSE LET d == P_digit(At(array, i), exp)
       IN P_placeLoop(array, exp, Put(output, At(count, d) - 1, At(array, i)),
                      Put(count, d, At(count, d) - 1), i - 1)

P_RadixSort_countingSortByDigit(s) ==
  LET n == Len(s.array)
      \* count[d] after the counting loop and the prefix sums
      count == [k \in 1..10 |->
                  Cardinality({m \in 1..n : P_digit(s.array[m], s.exp) <= k - 1})]
      output == P_placeLoop(s.array, s.exp, [k \in 1..n |-> undefined], count, n - 1)
  IN [HlRange(Inc(Inc(s, "accesses", n), "swaps", n), 0, n, "swap")
        EXCEPT !.array = output]

P_RadixSort_step(s) ==
  IF s.isComplete THEN s
  ELSE
    LET s1 == Inc(s, "steps", 1)
    IN IF s1.max # undefined /\ s1.max \div s1.exp > 0
       THEN Snd([P_RadixSort_countingSortByDigit(s1) EXCEPT !.exp = @ * 10], "swap")
       ELSE P_finish(HlRange(s1, 0, Len(s1.array), "sorted"))

\* SortingAlgorithm.draw of part_000: paints, then this.highlights = {}
P_SortingAlgorithm_draw(s) == [s EXCEPT !.highlights = <<>>]

P_SortClasses ==
  {"P.BubbleSort", "P.CocktailSort", "P.SelectionSort", "P.InsertionSort",
   "P.ShellSort", "P.QuickSort", "P.MergeSort", "P.HeapSort", "P.CountingSort",
   "P.RadixSort"}

P_SortInit(cls, array) ==
  CASE cls = "P.BubbleSort" -> P_BubbleSort_init(array)
    [] cls = "P.CocktailSort" -> P_CocktailSort_init(array)
    [] cls = "P.SelectionSort" -> P_SelectionSort_init(array)
    [] cls = "P.InsertionSort" -> P_InsertionSort_init(array)
    [] cls = "P.ShellSort" -> P_ShellSort_init(array)
    [] cls = "P.QuickSort" -> P_QuickSort_init(array)
    [] cls = "P.MergeSort" -> P_MergeSort_init(array)
    [] cls = "P.HeapSort" -> P_HeapSort_init(array)
    [] cls = "P.CountingSort" -> P_CountingSort_init(array)
    [] cls = "P.RadixSort" -> P_RadixSort_init(array)

----------------------------------------------------------------------------
(***************************************************************************)
(* part_000: SearchAlgorithm and its five search steppers.                 *)
(***************************************************************************)
P_SearchStats == [comparisons |-> 0, accesses |-> 0, steps |-> 0]

\* SearchAlgorithm.init with the (shuffled) array and the chosen target given
P_SearchAlgorithm(cls, array, target) ==
  [cls |-> cls, array |-> array, target |-> target, found |-> FALSE,
   foundIndex |-> 0 - 1, isComplete |-> FALSE, stats |-> P_SearchStats,
   highlights |-> <<>>, out |-> <<>>]

\* a hit that records the index but not the flag
P_foundAt_noFlag(s, k) == P_finish(Snd([s EXCEPT !.foundIndex = k], "found"))

\* found = true; foundIndex = k; audio.found(); finish()
P_foundAt(s, k) ==
  P_finish(Snd([s EXCEPT !.found = TRUE, !.foundIndex = k], "found"))

P_LinearSearch_init(array, target) ==
  P_SearchAlgorithm("P.LinearSearch", array, target) @@ [currentIndex |-> 0]

P_LinearSearch_step(s) ==
  IF s.isComplete THEN s
  ELSE
    LET s1 == Inc(s, "steps", 1)
    IN IF s1.currentIndex >= Len(s1.array) THEN P_finish(s1)
       ELSE
         LET s2 == Inc(Inc(Hl(s1, s1.currentIndex, "swap"), "accesses", 1),
                       "comparisons", 1)
         IN IF At(s2.array, s2.currentIndex) = s2.target
            THEN P_foundAt(s2, s2.currentIndex)
            ELSE [Snd(s2, "compare") EXCEPT !.currentIndex = @ + 1]

P_BinarySearch_init(array, target) ==
  P_SearchAlgorithm("P.BinarySearch", SortedRange(Len(array)), target)
    @@ [left |-> 0, right |-> Len(array) - 1, mid |-> 0 - 1]

\* one probe of the middle of left..right, shared text of BinarySearch.step
\* and of the binary phase of ExponentialSearch.step
P_bisect(s, mid) ==
  LET s1 == Inc(Inc(Hl(Hl(Hl(s, s.left, "current"), s.right, "current"),
                       mid, "swap"), "accesses", 1), "comparisons", 1)
  IN IF At(s1.array, mid) = s1.target THEN P_foundAt(s1, mid)
     ELSE IF JsLt(At(s1.array, mid), s1.target)
     THEN Snd([s1 EXCEPT !.left = mid + 1], "compare")
     ELSE Snd([s1 EXCEPT !.right = mid - 1], "compare")

P_BinarySearch_step(s) ==
  IF s.isComplete THEN s
  ELSE
    LET s1 == Inc(s, "steps", 1)
        mid == (s1.left + s1.right) \div 2
    IN IF s1.left > s1.right THEN P_finish(s1)
       ELSE P_bisect([s1 EXCEPT !.mid = mid], mid)

\* Math.floor(Math.sqrt(n))
Isqrt(n) == CHOOSE r \in 0..n : r * r <= n /\ (r + 1) * (r + 1) > n

Min(a, b) == IF a < b THEN a ELSE b

P_JumpSearch_init(array, target) ==
  P_SearchAlgorithm("P.JumpSearch", SortedRange(Len(array)), target)
    @@ [step_size |-> Isqrt(Len(array)), prev |-> 0, curr |-> 0, phase |-> "jump"]

P_JumpSearch_step(s) ==
  IF s.isComplete THEN s
  ELSE
    LET s1 == Inc(s, "steps", 1)
        n == Len(s1.array)
    IN IF s1.phase = "jump"
       THEN LET curr == Min(s1.prev + s1.step_size, n) - 1
                s2 == Inc(Inc(Hl([s1 EXCEPT !.curr = curr], curr, "swap"),
                              "accesses", 1), "comparisons", 1)
            IN IF JsLt(At(s2.array, curr), s2.target)
               THEN IF curr + 1 >= n
                    THEN P_finish([s2 EXCEPT !.prev = curr + 1])
                    ELSE Snd([s2 EXCEPT !.prev = curr + 1], "compare")
               ELSE [s2 EXCEPT !.phase = "linear", !.curr = s2.prev]
       ELSE IF s1.curr <= Min(s1.prev + s1.step_size - 1, n - 1)
       THEN LET s2 == Inc(Inc(Hl(s1, s1.curr, "current"), "accesses", 1),
                          "comparisons", 1)
            IN IF At(s2.array, s2.curr) = s2.target THEN P_foundAt(s2, s2.curr)
               ELSE Snd([s2 EXCEPT !.curr = @ + 1], "compare")
       ELSE P_finish(s1)

P_InterpolationSearch_init(array, target) ==
  P_SearchAlgorithm("P.InterpolationSearch", SortedRange(Len(array)), target)
    @@ [low |-> 0, high |-> Len(array) - 1]

\* a position scaled by the number of cells instead of the span
P_InterpolationSearch_pos_cells(s) ==
  s.low + (((s.target - At(s.array, s.low)) * (s.high - s.low + 1))
             \div (At(s.array, s.high) - At(s.array, s.low)))

\* low + Math.floor(((target - a[low]) / (a[high] - a[low])) * (high - low)):
\* the double product is the exact quotient for spans below 22
P_InterpolationSearch_pos(s) ==
  s.low + (((s.target - At(s.array, s.low)) * (s.high - s.low))
             \div (At(s.array, s.high) - At(s.array, s.low)))

P_InterpolationSearch_step(s) ==
  IF s.isComplete THEN s
  ELSE
    LET s1 == Inc(s, "steps", 1)
    IN IF s1.low > s1.high \/ JsLt(s1.target, At(s1.array, s1.low))
          \/ JsGt(s1.target, At(s1.array, s1.high))
       THEN P_finish(s1)
       ELSE IF s1.low = s1.high
       THEN IF At(s1.array, s1.low) = s1.target
            THEN P_foundAt(s1, s1.low) ELSE P_finish(s1)
       ELSE
         LET pos == P_InterpolationSearch_pos(s1)
             s2 == Inc(Inc(Hl(Hl(Hl(s1, s1.low, "current"), s1.high, "current"),
                              pos, "swap"), "accesses", 1), "comparisons", 1)
         IN IF At(s2.array, pos) = s2.target THEN P_foundAt(s2, pos)
            ELSE IF JsLt(At(s2.array, pos), s2.target)
            THEN Snd([s2 EXCEPT !.low = pos + 1], "compare")
            ELSE Snd([s2 EXCEPT !.high = pos - 1], "compare")

P_ExponentialSearch_init(array, target) ==
  P_SearchAlgorithm("P.ExponentialSearch", SortedRange(Len(array)), target)
    @@ [phase |-> "exponential", bound |-> 1, left |-> 0, right |-> 0]

P_ExponentialSearch_step(s) ==
  IF s.isComplete THEN s
  ELSE
    LET s1 == Inc(s, "steps", 1)
        n == Len(s1.array)
        probe == Min(s1.bound, n - 1)
    IN IF s1.phase = "exponential"
       THEN IF s1.bound >= n
               \/ (At(s1.array, probe) # undefined /\ s1.target # undefined
                   /\ At(s1.array, probe) >= s1.target)
            THEN [s1 EXCEPT !.left = s1.bound \div 2, !.right = probe,
                            !.phase = "binary"]
            ELSE Snd([Inc(Inc(Hl(s1, probe, "swap"), "accesses", 1),
                          "comparisons", 1) EXCEPT !.bound = @ * 2], "compare")
       ELSE IF s1.left > s1.right THEN P_finish(s1)
       ELSE P_bisect(s1, (s1.left + s1.right) \div 2)

\* SearchAlgorithm.draw of part_000: paints, then this.highlights = {}
P_SearchAlgorithm_draw(s) == [s EXCEPT !.highlights = <<>>]

P_SearchClasses ==
  {"P.LinearSearch", "P.BinarySearch", "P.JumpSearch", "P.InterpolationSearch",
   "P.ExponentialSearch"}

P_SearchInit(cls, array, target) ==
  CASE cls = "P.LinearSearch" -> P_LinearSearch_init(array, target)
    [] cls = "P.BinarySearch" -> P_BinarySearch_init(array, target)
    [] cls = "P.JumpSearch" -> P_JumpSearch_init(array, target)
    [] cls = "P.InterpolationSearch" -> P_InterpolationSearch_init(array, target)
    [] cls = "P.ExponentialSearch" -> P_ExponentialSearch_init(array, target)

----------------------------------------------------------------------------
(***************************************************************************)
(* part_000: StackVisualization and QueueVisualization.                    *)
(***************************************************************************)
P_Stack_maxSize == 20

P_Queue_maxSize == 15

\* the operations init() generates: the structure is empty all through init(),
\* so every operation is an insertion of the next rng.int(1, 99)
P_operations(type, values) == [k \in 1..Len(values) |-> [type |-> type, value |-> values[k]]]

P_OpsData(seed, size) == M_ints(M_SeededRNG(seed), size, 1, 99)[1]

P_StackVisualization_init(values) ==
  [cls |-> "P.StackVisualization", stack |-> <<>>,
   operations |-> P_operations("push", values), currentOp |-> 0,
   stats |-> [pushes |-> 0, pops |-> 0, operations |-> 0],
   isComplete |-> FALSE, highlights |-> <<>>, out |-> <<>>]

P_StackVisualization_step(s) ==
  IF s.isComplete \/ s.currentOp >= Len(s.operations) THEN s
  ELSE
    LET s1 == Inc(s, "operations", 1)
        op == At(s1.operations, s1.currentOp)
        s2 == IF op.type = "push" /\ Len(s1.stack) < P_Stack_maxSize
              THEN Snd(Hl(Inc([s1 EXCEPT !.stack = Push(@, op.value)], "pushes", 1),
                          Len(s1.stack), "swap"), "push")
              ELSE IF op.type = "pop" /\ Len(s1.stack) > 0
              THEN Snd(Inc([Hl(s1, Len(s1.stack) - 1, "compare")
                              EXCEPT !.stack = Pop(@)], "pops", 1), "pop")
              ELSE s1
        s3 == [s2 EXCEPT !.currentOp = @ + 1]
    IN IF s3.currentOp >= Len(s3.operations) THEN P_finish(s3) ELSE s3

P_QueueVisualization_init(values) ==
  [cls |-> "P.QueueVisualization", queue |-> <<>>,
   operations |-> P_operations("enqueue", values), currentOp |-> 0,
   stats |-> [enqueues |-> 0, dequeues |-> 0, operations |-> 0],
   isComplete |-> FALSE, highlights |-> <<>>, out |-> <<>>]

P_QueueVisualization_step(s) ==
  IF s.isComplete \/ s.currentOp >= Len(s.operations) THEN s
  ELSE
    LET s1 == Inc(s, "operations", 1)
        op == At(s1.operations, s1.currentOp)
        s2 == IF op.type = "enqueue" /\ Len(s1.queue) < P_Queue_maxSize
              THEN Snd(Hl(Inc([s1 EXCEPT !.queue = Push(@, op.value)], "enqueues", 1),
                          Len(s1.queue), "swap"), "push")
              ELSE IF op.type = "dequeue" /\ Len(s1.queue) > 0
              THEN Snd(Inc([Hl(s1, 0, "compare") EXCEPT !.queue = Tail(@)],
                           "dequeues", 1), "pop")
              ELSE s1
        s3 == [s2 EXCEPT !.currentOp = @ + 1]
    IN IF s3.currentOp >= Len(s3.operations) THEN P_finish(s3) ELSE s3

\* StackVisualization.draw, QueueVisualization.draw: paint, then highlights = {}
P_Visualization_draw(s) == [s EXCEPT !.highlights = <<>>]

P_VisClasses == {"P.StackVisualization", "P.QueueVisualization"}

P_VisInit(cls, values) ==
  CASE cls = "P.StackVisualization" -> P_StackVisualization_init(values)
    [] cls = "P.QueueVisualization" -> P_QueueVisualization_init(values)

----------------------------------------------------------------------------
(***************************************************************************)
(* part_000: PathfindingAlgorithm, BFS, DFS, AStar, Dijkstra.  The cell    *)
(* object grid[y][x] is the pair <<x, y>>; a field of the cells is a set   *)
(* (isWall, isVisited, isPath) or a map from cells (parent, distance,      *)
(* gScore, fScore) in which a missing cell has the initial value null or   *)
(* Infinity.                                                               *)
(***************************************************************************)
\* the null reference where a cell is expected
NoCell == <<>>

RECURSIVE P_wallsFrom(_, _)
\* PathfindingAlgorithm.init, the grid loops: <<cells with rng.random() < 0.25,
\* rng state after the last cell>>
P_wallsFrom(st, k) ==
  IF k >= GridSize * GridSize THEN <<{}, st>>
  ELSE LET s1 == M_next(st)
           rest == P_wallsFrom(s1, k + 1)
       IN <<(IF s1[1] < 16384 THEN {<<k % GridSize, k \div GridSize>>} ELSE {})
              \cup rest[1], rest[2]>>

RECURSIVE P_corridor(_, _, _, _, _)
\* for (j < length) { if in bounds, isWall = false; move by direction }
P_corridor(walls, x, y, direction, j) ==
  IF j = 0 THEN walls
  ELSE P_corridor(walls \ {<<x, y>>},
                  CASE direction = 0 -> x + 1 [] direction = 2 -> x - 1 [] OTHER -> x,
                  CASE direction = 1 -> y + 1 [] direction = 3 -> y - 1 [] OTHER -> y,
                  direction, j - 1)

RECURSIVE P_ensurePath(_, _, _)
\* PathfindingAlgorithm.ensurePath: corridors i..4, each from four draws
P_ensurePath(walls, st, i) ==
  IF i >= 5 THEN walls
  ELSE LET s1 == M_next(st)
           s2 == M_next(s1)
           s3 == M_next(s2)
           s4 == M_next(s3)
           startX == P_int(s1, 1, GridSize - 2)
           startY == P_int(s2, 1, GridSize - 2)
           length == P_int(s3, 5, 15)
           direction == P_int(s4, 0, 3)
       IN P_ensurePath(P_corridor(walls, startX, startY, direction, length), s4, i + 1)

\* the walls PathfindingAlgorithm.init(seed) leaves: grid loops, start and
\* goal opened, ensurePath
P_GridData(seed) ==
  LET g == P_wallsFrom(M_SeededRNG(seed), 0)
  IN P_ensurePath(g[1] \ {M_start, M_goal}, g[2], 0)

P_PathStats == [nodesVisited |-> 0, pathLength |-> 0, steps |-> 0]

\* PathfindingAlgorithm.init with the walls left by the generator given
P_PathfindingAlgorithm(cls, walls) ==
  [cls |-> cls, isWall |-> walls \ {M_start, M_goal}, isVisited |-> {},
   isPath |-> {}, parent |-> <<>>, distance |-> <<>>, gScore |-> <<>>,
   fScore |-> <<>>, visited |-> {}, path |-> <<>>, isComplete |-> FALSE,
   stats |-> P_PathStats, highlights |-> <<>>, out |-> <<>>]

\* PathfindingAlgorithm.getNeighbors: the open cells around cell, in order
P_getNeighbors(s, cell) ==
  LET around == [d \in 1..4 |-> <<cell[1] + M_dirs[d][1], cell[2] + M_dirs[d][2]>>]
  IN SelectSeq(around, LAMBDA c : c \in Cells /\ c \notin s.isWall)

RECURSIVE P_pathLoop(_, _, _)
\* while (current && current !== start) { isPath; path.unshift; parent }
P_pathLoop(s, current, fuel) ==
  IF current = NoCell \/ current = M_start THEN s
  ELSE IF fuel = 0 THEN Hung
  ELSE P_pathLoop([s EXCEPT !.isPath = @ \cup {current},
                            !.path = <<current>> \o @],
                  IF current \in DOMAIN s.parent THEN s.parent[current] ELSE NoCell,
                  fuel - 1)

\* a reconstruction that counts the start cell in the length
P_reconstructPath_countStart(s, endCell) ==
  LET r == P_pathLoop([s EXCEPT !.path = <<>>], endCell, GridSize * GridSize)
  IN IF r.cls = "hung" THEN Hung
     ELSE P_finish([r EXCEPT !.isPath = @ \cup {M_start},
                             !.stats.pathLength = Len(r.path) + 1])

\* reconstructPath(endCell), then finish()
P_reconstructPath(s, endCell) ==
  LET r == P_pathLoop([s EXCEPT !.path = <<>>], endCell, GridSize * GridSize)
  IN IF r.cls = "hung" THEN Hung
     ELSE P_finish([r EXCEPT !.isPath = @ \cup {M_start},
                             !.stats.pathLength = Len(r.path)])

P_BFS_init(walls) ==
  [P_PathfindingAlgorithm("P.BFS", walls) EXCEPT
     !.isVisited = {M_start}, !.distance = (M_start :> 0)]
    @@ [queue |-> <<M_start>>]

RECURSIVE P_BFS_neighbors(_, _, _)
P_BFS_neighbors(s, current, neighbors) ==
  IF neighbors = <<>> THEN s
  ELSE
    LET neighbor == Head(neighbors)
    IN IF neighbor \notin s.isVisited
       THEN P_BFS_neighbors(
              [s EXCEPT !.isVisited = @ \cup {neighbor},
                        !.parent = (neighbor :> current) @@ @,
                        !.distance = (neighbor :> s.distance[current] + 1) @@ @,
                        !.queue = Push(@, neighbor)],
              current, Tail(neighbors))
       ELSE P_BFS_neighbors(s, current, Tail(neighbors))

P_BFS_step(s) ==
  IF s.isComplete THEN s
  ELSE
    LET s1 == Inc(s, "steps", 1)
    IN IF s1.queue = <<>> THEN P_finish(s1)
       ELSE
         LET current == Head(s1.queue)
             s2 == Inc([s1 EXCEPT !.queue = Tail(@)], "nodesVisited", 1)
         IN IF current = M_goal THEN P_reconstructPath(s2, current)
            ELSE Snd(P_BFS_neighbors(s2, current, P_getNeighbors(s2, current)),
                     "access")

P_DFS_init(walls) ==
  [P_PathfindingAlgorithm("P.DFS", walls) EXCEPT !.isVisited = {M_start}]
    @@ [stack |-> <<M_start>>]

RECURSIVE P_DFS_neighbors(_, _, _)
P_DFS_neighbors(s, current, neighbors) ==
  IF neighbors = <<>> THEN s
  ELSE
    LET neighbor == Head(neighbors)
    IN IF neighbor \notin s.isVisited
       THEN P_DFS_neighbors(
              [s EXCEPT !.isVisited = @ \cup {neighbor},
                        !.parent = (neighbor :> current) @@ @,
                        !.stack = Push(@, neighbor)],
              current, Tail(neighbors))
       ELSE P_DFS_neighbors(s, current, Tail(neighbors))

P_DFS_step(s) ==
  IF s.isComplete THEN s
  ELSE
    LET s1 == Inc(s, "steps", 1)
    IN IF s1.stack = <<>> THEN P_finish(s1)
       ELSE
         LET current == Top(s1.stack)
             s2 == Inc([s1 EXCEPT !.stack = Pop(@)], "nodesVisited", 1)
         IN IF current = M_goal THEN P_reconstructPath(s2, current)
            ELSE Snd(P_DFS_neighbors(s2, current, P_getNeighbors(s2, current)),
                     "access")

P_manhattanDistance(a, b) == Abs(a[1] - b[1]) + Abs(a[2] - b[2])

P_AStar_init(walls) ==
  [P_PathfindingAlgorithm("P.AStar", walls) EXCEPT
     !.gScore = (M_start :> 0),
     !.fScore = (M_start :> P_manhattanDistance(M_start, M_goal))]
    @@ [openSet |-> <<M_start>>, closedSet |-> {}]

\* the comparison turned round: the entry of greatest score is taken
P_less_greatest(map, a, b) ==
  a \in DOMAIN map /\ b \in DOMAIN map /\ map[a] > map[b]

\* a < b for scores, a missing score being Infinity
P_less(map, a, b) ==
  a \in DOMAIN map /\ (b \notin DOMAIN map \/ map[a] < map[b])

RECURSIVE P_AStar_scan(_, _, _)
\* the index (from 1) of the first cell of openSet with the least fScore
P_AStar_scan(s, best, i) ==
  IF i > Len(s.openSet) THEN best
  ELSE IF P_less(s.fScore, s.openSet[i], s.openSet[best])
  THEN P_AStar_scan(s, i, i + 1)
  ELSE P_AStar_scan(s, best, i + 1)

\* q.splice(i - 1, 1)
Splice(q, i) == SubSeq(q, 1, i - 1) \o SubSeq(q, i + 1, Len(q))

RECURSIVE P_AStar_neighbors(_, _, _)
P_AStar_neighbors(s, current, neighbors) ==
  IF neighbors = <<>> THEN s
  ELSE
    LET neighbor == Head(neighbors)
        tentativeGScore == s.gScore[current] + 1
        isOpen == \E k \in 1..Len(s.openSet) : s.openSet[k] = neighbor
    IN IF neighbor \in s.closedSet
          \/ (isOpen /\ neighbor \in DOMAIN s.gScore
                     /\ tentativeGScore >= s.gScore[neighbor])
       THEN P_AStar_neighbors(s, current, Tail(neighbors))
       ELSE P_AStar_neighbors(
              [s EXCEPT !.openSet = IF isOpen THEN @ ELSE Push(@, neighbor),
                        !.parent = (neighbor :> current) @@ @,
                        !.gScore = (neighbor :> tentativeGScore) @@ @,
                        !.fScore = (neighbor :> tentativeGScore
                                      + P_manhattanDistance(neighbor, M_goal)) @@ @],
              current, Tail(neighbors))

P_AStar_step(s) ==
  IF s.isComplete THEN s
  ELSE
    LET s1 == Inc(s, "steps", 1)
    IN IF s1.openSet = <<>> THEN P_finish(s1)
       ELSE
         LET currentIndex == P_AStar_scan(s1, 1, 2)
             current == s1.openSet[currentIndex]
             s2 == Inc([s1 EXCEPT !.openSet = Splice(@, currentIndex),
                                  !.closedSet = @ \cup {current},
                                  !.isVisited = @ \cup {current}],
                       "nodesVisited", 1)
         IN IF current = M_goal THEN P_reconstructPath(s2, current)
            ELSE Snd(P_AStar_neighbors(s2, current, P_getNeighbors(s2, current)),
                     "access")

\* the open cells in row order: for y, for x, if (!isWall) unvisited.push
P_rowOrder(walls) ==
  SelectSeq([k \in 1..(GridSize * GridSize) |->
               <<(k - 1) % GridSize, (k - 1) \div GridSize>>],
            LAMBDA c : c \notin walls)

P_Dijkstra_init(walls) ==
  [P_PathfindingAlgorithm("P.Dijkstra", walls) EXCEPT !.distance = (M_start :> 0)]
    @@ [unvisited |-> P_rowOrder(walls \ {M_start, M_goal})]

RECURSIVE P_Dijkstra_scan(_, _, _)
\* the index (from 1) of the first unvisited cell of least finite distance,
\* 0 when every distance is Infinity
P_Dijkstra_scan(s, best, i) ==
  IF i > Len(s.unvisited) THEN best
  ELSE IF s.unvisited[i] \in DOMAIN s.distance
          /\ (best = 0 \/ s.distance[s.unvisited[i]] < s.distance[s.unvisited[best]])
  THEN P_Dijkstra_scan(s, i, i + 1)
  ELSE P_Dijkstra_scan(s, best, i + 1)

RECURSIVE P_Dijkstra_neighbors(_, _, _)
P_Dijkstra_neighbors(s, current, neighbors) ==
  IF neighbors = <<>> THEN s
  ELSE
    LET neighbor == Head(neighbors)
        alt == s.distance[current] + 1
    IN IF neighbor \notin s.isVisited
          /\ (neighbor \notin DOMAIN s.distance \/ alt < s.distance[neighbor])
       THEN P_Dijkstra_neighbors(
              [s EXCEPT !.distance = (neighbor :> alt) @@ @,
                        !.parent = (neighbor :> current) @@ @],
              current, Tail(neighbors))
       ELSE P_Dijkstra_neighbors(s, current, Tail(neighbors))

P_Dijkstra_step(s) ==
  IF s.isComplete THEN s
  ELSE
    LET s1 == Inc(s, "steps", 1)
        currentIndex == P_Dijkstra_scan(s1, 0, 1)
    IN IF s1.unvisited = <<>> \/ currentIndex = 0 THEN P_finish(s1)
       ELSE
         LET current == s1.unvisited[currentIndex]
             s2 == Inc([s1 EXCEPT !.unvisited = Splice(@, currentIndex),
                                  !.isVisited = @ \cup {current}],
                       "nodesVisited", 1)
         IN IF current = M_goal THEN P_reconstructPath(s2, current)
            ELSE Snd(P_Dijkstra_neighbors(s2, current, P_getNeighbors(s2, current)),
                     "access")

\* PathfindingAlgorithm.draw: paints only
P_PathfindingAlgorithm_draw(s) == s

P_PathClasses == {"P.BFS", "P.DFS", "P.AStar", "P.Dijkstra"}

P_PathInit(cls, walls) ==
  CASE cls = "P.BFS" -> P_BFS_init(walls)
    [] cls = "P.DFS" -> P_DFS_init(walls)
    [] cls = "P.AStar" -> P_AStar_init(walls)
    [] cls = "P.Dijkstra" -> P_Dijkstra_init(walls)

\* SortingAlgorithm.draw: paints, then this.highlights = {}
\* a draw() that lacks the line `this.highlights = {};`
M_SortingAlgorithm_draw_keep(s) == s

M_SortingAlgorithm_draw(s) == [s EXCEPT !.highlights = <<>>]

M_SortClasses ==
  {"M.BubbleSort", "M.SelectionSort", "M.InsertionSort", "M.QuickSort",
   "M.MergeSort", "M.HeapSort"}

\* new Class(canvas, sfx, name) followed by init, for the generated array arr
M_SortInit(cls, arr) ==
  CASE cls = "M.BubbleSort" -> M_BubbleSort_init(arr)
    [] cls = "M.SelectionSort" -> M_SelectionSort_init(arr)
    [] cls = "M.InsertionSort" -> M_InsertionSort_init(arr)
    [] cls = "M.QuickSort" -> M_QuickSort_init(arr)
    [] cls = "M.MergeSort" -> M_MergeSort_init(arr)
    [] cls = "M.HeapSort" -> M_HeapSort_init(arr)

----------------------------------------------------------------------------
(***************************************************************************)
(* step() and draw() by dynamic dispatch on the object's class.            *)
(***************************************************************************)
Step(s) ==
  CASE s.cls = "M.BubbleSort" -> M_BubbleSort_step(s)
    [] s.cls = "M.SelectionSort" -> M_SelectionSort_step(s)
    [] s.cls = "M.InsertionSort" -> M_InsertionSort_step(s)
    [] s.cls = "M.QuickSort" -> M_QuickSort_step(s)
    [] s.cls = "M.MergeSort" -> M_MergeSort_step(s)
    [] s.cls = "M.HeapSort" -> M_HeapSort_step(s)
    [] s.cls = "M.LinearSearch" -> M_LinearSearch_step(s)
    [] s.cls = "M.BinarySearch" -> M_BinarySearch_step(s)
    [] s.cls = "M.Dijkstra" -> M_Dijkstra_step(s)
    [] s.cls = "M.AStar" -> M_AStar_step(s)
    [] s.cls = "M.BFS" -> M_BFS_step(s)
    [] s.cls = "M.DFS" -> M_DFS_step(s)
    [] s.cls = "M.InOrderTraversal" -> M_InOrderTraversal_step(s)
    [] s.cls = "M.PreOrderTraversal" -> M_PreOrderTraversal_step(s)
    [] s.cls = "M.PostOrderTraversal" -> M_PostOrderTraversal_step(s)
    [] s.cls = "P.BubbleSort" -> P_BubbleSort_step(s)
    [] s.cls = "P.CocktailSort" -> P_CocktailSort_step(s)
    [] s.cls = "P.SelectionSort" -> P_SelectionSort_step(s)
    [] s.cls = "P.InsertionSort" -> P_InsertionSort_step(s)
    [] s.cls = "P.ShellSort" -> P_ShellSort_step(s)
    [] s.cls = "P.QuickSort" -> P_QuickSort_step(s)
    [] s.cls = "P.MergeSort" -> P_MergeSort_step(s)
    [] s.cls = "P.HeapSort" -> P_HeapSort_step(s)
    [] s.cls = "P.CountingSort" -> P_CountingSort_step(s)
    [] s.cls = "P.RadixSort" -> P_RadixSort_step(s)
    [] s.cls = "P.LinearSearch" -> P_LinearSearch_step(s)
    [] s.cls = "P.BinarySearch" -> P_BinarySearch_step(s)
    [] s.cls = "P.JumpSearch" -> P_JumpSearch_step(s)
    [] s.cls = "P.InterpolationSearch" -> P_InterpolationSearch_step(s)
    [] s.cls = "P.ExponentialSearch" -> P_ExponentialSearch_step(s)
    [] s.cls = "P.StackVisualization" -> P_StackVisualization_step(s)
    [] s.cls = "P.QueueVisualization" -> P_QueueVisualization_step(s)
    [] s.cls = "P.BFS" -> P_BFS_step(s)
    [] s.cls = "P.DFS" -> P_DFS_step(s)
    [] s.cls = "P.AStar" -> P_AStar_step(s)
    [] s.cls = "P.Dijkstra" -> P_Dijkstra_step(s)
    [] s.cls = "hung" -> s

Draw(s) ==
  CASE s.cls \in M_SortClasses -> M_SortingAlgorithm_draw(s)
    [] s.cls \in M_SearchClasses -> M_SearchAlgorithm_draw(s)
    [] s.cls \in M_GraphClasses -> M_GraphAlgorithm_draw(s)
    [] s.cls \in M_TreeClasses -> M_TreeAlgorithm_draw(s)
    [] s.cls \in P_SortClasses -> P_SortingAlgorithm_draw(s)
    [] s.cls \in P_SearchClasses -> P_SearchAlgorithm_draw(s)
    [] s.cls \in P_VisClasses -> P_Visualization_draw(s)
    [] s.cls \in P_PathClasses -> P_PathfindingAlgorithm_draw(s)
    [] s.cls = "hung" -> s

\* no second stepper (simB = null in single mode)
NoSim == [cls |-> "none"]

NoCores == <<>>

----------------------------------------------------------------------------
(***************************************************************************)
(* main.js: construction and init(seed, size) as a method of an object.    *)
(***************************************************************************)
\* the object a constructor of main.js returns
M_constructed(cls) ==
  [cls |-> cls, isDone |-> FALSE, highlights |-> <<>>, out |-> <<>>]
    @@ CASE cls \in M_SortClasses -> [arr |-> <<>>, stats |-> M_SortStats]
         [] cls \in M_SearchClasses ->
              [arr |-> <<>>, target |-> 0, found |-> FALSE, foundIndex |-> 0 - 1,
               stats |-> M_SearchStats]
         [] cls \in M_GraphClasses ->
              [walls |-> {}, visited |-> {}, path |-> {}, stats |-> M_GraphStats]
         [] cls \in M_TreeClasses ->
              [root |-> 0, nodes |-> <<>>, currentNode |-> 0,
               traversalOrder |-> <<>>, stats |-> M_TreeStats]

M_Classes == M_SortClasses \cup M_SearchClasses \cup M_GraphClasses \cup M_TreeClasses

\* what init(seed, size) generates for a class: the array, <<array, target>>,
\* the walls, or the values inserted in the tree
M_data(cls, seed, size) ==
  CASE cls \in M_SortClasses -> M_SortingData(seed, size)
    [] cls \in M_SearchClasses -> M_SearchData(seed, size)
    [] cls \in M_GraphClasses -> M_GraphData(seed)
    [] cls \in M_TreeClasses -> M_TreeData(seed, size)

\* the fields init assigns, by class
M_assigned(cls, data) ==
  CASE cls \in M_SortClasses -> M_SortInit(cls, data)
    [] cls \in M_SearchClasses -> M_SearchInit(cls, data[1], data[2])
    [] cls \in M_GraphClasses -> M_GraphInit(cls, data)
    [] cls \in M_TreeClasses -> M_TreeInit(cls, data)

\* init on the object old: the assigned fields are replaced, the others stay;
\* a node reference that stays refers to a node of the replaced tree
M_initWith(old, data) ==
  LET new == M_assigned(old.cls, data)
      r == new @@ old
  IN IF "currentNode" \in DOMAIN old /\ "currentNode" \notin DOMAIN new
        /\ old.currentNode # 0
     THEN [r EXCEPT !.currentNode = stale]
     ELSE r

M_init(old, seed, size) == M_initWith(old, M_data(old.cls, seed, size))

\* new Class(canvas, sfx, name) followed by init
M_new(cls, data) == M_initWith(M_constructed(cls), data)

Finished(s) == IF "isDone" \in DOMAIN s THEN s.isDone ELSE s.isComplete

\* the data set a stepper works on
Dataset(s) ==
  CASE s.cls \in M_SortClasses \cup M_SearchClasses -> s.arr
    [] s.cls \in P_SortClasses \cup P_SearchClasses -> s.array
    [] s.cls \in M_GraphClasses -> s.walls
    [] s.cls \in P_PathClasses -> s.isWall
    [] s.cls \in M_TreeClasses -> s.nodes
    [] s.cls \in P_VisClasses -> s.operations

----------------------------------------------------------------------------
(***************************************************************************)
(* The calls a driver makes on the live steppers.                          *)
(***************************************************************************)
StepA ==
  /\ simA' = Quiet(Step(simA))
  /\ sfx' = Step(simA).out
  /\ UNCHANGED <<simB, cores, arr0>>

\* a step() on B that also writes B's stats into A, as with one shared object
StepB_sharedStats ==
  /\ simB' = Quiet(Step(simB))
  /\ simA' = [simA EXCEPT !.stats = Step(simB).stats]
  /\ sfx' = Step(simB).out
  /\ UNCHANGED <<cores, arr0>>

StepB ==
  /\ simB' = Quiet(Step(simB))
  /\ sfx' = Step(simB).out
  /\ UNCHANGED <<simA, cores, arr0>>

DrawA ==
  /\ simA' = Draw(simA)
  /\ sfx' = <<>>
  /\ UNCHANGED <<simB, cores, arr0>>

DrawB ==
  /\ simB' = Draw(simB)
  /\ sfx' = <<>>
  /\ UNCHANGED <<simA, cores, arr0>>

\* one stepper, just initialised, in single mode
Single(inits) ==
  /\ simA \in inits
  /\ arr0 = Dataset(simA)
  /\ simB = NoSim
  /\ sfx = <<>>
  /\ cores = NoCores

----------------------------------------------------------------------------
(***************************************************************************)
(* The inputs explored: every array over 1..MaxVal of length 0..MaxLen,    *)
(* every permutation of 1..n with every target, every wall set of at most  *)
(* MaxWalls cells and the grids of the seeds 0..MaxSeed.                   *)
(***************************************************************************)
\* the arrays a shuffle of [1..n] can produce
Perms(n) == {q \in [1..n -> 1..n] : \A i, j \in 1..n : q[i] = q[j] => i = j}

\* <<array, target>>: target is array[k], undefined for the empty array
SearchInputs ==
  UNION {{<<q, At(q, k)>> : q \in Perms(n), k \in 0..(IF n = 0 THEN 0 ELSE n - 1)} :
           n \in 0..MaxLen}

Grids == WallSets \cup {M_GraphData(seed) : seed \in 0..MaxSeed}

M_SortInits == {M_new(cls, arr) : cls \in M_SortClasses, arr \in Arrays}

M_SearchInits == {M_new(cls, d) : cls \in M_SearchClasses, d \in SearchInputs}

M_GraphInits == {M_new(cls, walls) : cls \in M_GraphClasses, walls \in Grids}

M_TreeInits == {M_new(cls, values) : cls \in M_TreeClasses, values \in Arrays}

\* CountingSort.init throws on the empty array
P_SortInits ==
  {P_SortInit(cls, array) : cls \in P_SortClasses \ {"P.CountingSort"}, array \in Arrays}
    \cup {P_CountingSort_init(array) : array \in Arrays \ {<<>>}}

P_SearchInits == {P_SearchInit(cls, d[1], d[2]) : cls \in P_SearchClasses, d \in SearchInputs}

P_VisInits == {P_VisInit(cls, values) : cls \in P_VisClasses, values \in Arrays}

P_PathInits == {P_PathInit(cls, walls) : cls \in P_PathClasses, walls \in WallSets}

----------------------------------------------------------------------------
(***************************************************************************)
(* main.js sorting: one stepper run by step() calls.                       *)
(***************************************************************************)
InitMainSort == Single(M_SortInits)

NextMainSort == StepA

SpecMainSort == InitMainSort /\ [][NextMainSort]_vars

\* C1: once step() calls have made a main.js sorting stepper finished, arr is
\* in non-decreasing order and is a permutation of the array init produced.
C1_SortedPermutation ==
  (simA.cls \in M_SortClasses /\ simA.isDone) =>
     (IsSorted(simA.arr) /\ IsPerm(simA.arr, arr0))

C1_Witness ==
  /\ simA.cls = "M.HeapSort"
  /\ simA.isDone
  /\ Len(simA.arr) = MaxLen
  /\ simA.stats.swaps > MaxLen
  /\ ~IsSorted(arr0)

----------------------------------------------------------------------------
(***************************************************************************)
(* main.js grid pathfinding: one stepper run by step() calls.              *)
(***************************************************************************)
InitMainGraph == Single(M_GraphInits)

NextMainGraph == StepA

SpecMainGraph == InitMainGraph /\ [][NextMainGraph]_vars

RECURSIVE Chain(_, _, _)
\* the cells met from key by following cameFrom while it has an entry
Chain(cameFrom, key, fuel) ==
  IF key \notin DOMAIN cameFrom \/ fuel = 0 THEN <<key>>
  ELSE <<key>> \o Chain(cameFrom, cameFrom[key], fuel - 1)

Adjacent(a, b) == Abs(a[1] - b[1]) + Abs(a[2] - b[2]) = 1

\* reconstruction ran: only the step that pops the goal fills path
GoalPopped(s) == s.cls \in M_GraphClasses /\ s.isDone /\ s.path # {}

\* C10: when a main.js pathfinder has finished by popping the goal, the
\* cameFrom chain from the goal starts at the goal, ends at the start, moves
\* between 4-adjacent cells, meets no wall, path holds exactly its cells and
\* stats.pathLength is its number of moves.
C10_PathIsChain ==
  GoalPopped(simA) =>
    LET ch == Chain(simA.cameFrom, M_goal, GridSize * GridSize)
    IN /\ ch[1] = M_goal
       /\ ch[Len(ch)] = M_start
       /\ \A k \in 1..(Len(ch) - 1) : Adjacent(ch[k], ch[k + 1])
       /\ \A k \in 1..Len(ch) : ch[k] \in Cells \ simA.walls
       /\ simA.path = {ch[k] : k \in 1..Len(ch)}
       /\ simA.stats.pathLength = Len(ch) - 1

C10_Witness ==
  /\ GoalPopped(simA)
  /\ simA.cls = "M.DFS"
  /\ simA.walls # {}
  /\ simA.stats.pathLength > 2

----------------------------------------------------------------------------
(***************************************************************************)
(* part_000 sorting: one stepper run by step() calls.                      *)
(***************************************************************************)
InitPartSort == Single(P_SortInits)

NextPartSort == StepA

SpecPartSort == InitPartSort /\ [][NextPartSort]_vars

\* C3: a part_000 CocktailSort that is not finished makes progress at every
\* step() call (so that it can reach finished in a bounded number of calls):
\* no reachable state has finished false and step() changing nothing.
C3_NoStuckState ==
  (simA.cls = "P.CocktailSort" /\ ~simA.isComplete) => Step(simA) # simA

\* C4: when a part_000 HeapSort has finished, array is in non-decreasing
\* order and is a permutation of the array init produced.
C4_HeapSortedPermutation ==
  (simA.cls = "P.HeapSort" /\ simA.isComplete) =>
     (IsSorted(simA.array) /\ IsPerm(simA.array, arr0))

----------------------------------------------------------------------------
(***************************************************************************)
(* part_000 searching: one stepper; the driver keeps calling step().       *)
(***************************************************************************)
InitPartSearch == Single(P_SearchInits)

NextPartSearch == StepA

SpecPartSearch ==
  InitPartSearch /\ [][NextPartSearch]_vars /\ WF_vars(StepA)

\* C2: a part_000 search stepper over n >= 1 elements reaches, by repeated
\* step() calls, finished = true with found = true and array[foundIndex]
\* equal to target.
C2_SearchFinds ==
  (simA.cls \in P_SearchClasses /\ Len(simA.array) >= 1) =>
     <>(/\ simA.isComplete
        /\ simA.found
        /\ At(simA.array, simA.foundIndex) = simA.target)

C2_Witness ==
  /\ simA.cls = "P.JumpSearch"
  /\ simA.isComplete /\ simA.found
  /\ Len(simA.array) = MaxLen
  /\ simA.foundIndex >= 2
  /\ At(simA.array, simA.foundIndex) = simA.target

----------------------------------------------------------------------------
(***************************************************************************)
(* Every stepper class of main.js and part_000: one stepper run by step()  *)
(* calls, which go on after it has finished.                               *)
(***************************************************************************)
InitSteppers ==
  Single(M_SortInits \cup M_SearchInits \cup M_GraphInits \cup M_TreeInits
           \cup P_SortInits \cup P_SearchInits \cup P_VisInits \cup P_PathInits)

NextSteppers == StepA

SpecSteppers == InitSteppers /\ [][NextSteppers]_vars

\* C6: a step() call on a finished stepper of main.js or part_000 returns
\* with every field as it was (data set, cursors, stacks, frontiers, stats,
\* highlights, finished) and with no notification sent.
C6_StepAfterFinishedIsNoOp == Finished(simA) => Step(simA) = simA

C6_Witness ==
  /\ simA.cls = "M.BubbleSort"
  /\ simA.isDone
  /\ simA.stats.swaps > 0
  /\ simA.highlights # <<>>

----------------------------------------------------------------------------
(***************************************************************************)
(* main.js battle mode: two steppers of one class, constructed separately  *)
(* and initialised with the same (seed, size), stepped and drawn in any    *)
(* order.                                                                  *)
(***************************************************************************)
Seeds == 0..MaxSeed

Sizes == 0..MaxLen

InitMainPair ==
  /\ \E cls \in M_Classes, seed \in Seeds, size \in Sizes :
       /\ simA = M_init(M_constructed(cls), seed, size)
       /\ simB = M_init(M_constructed(cls), seed, size)
  /\ arr0 = Dataset(simA)
  /\ sfx = <<>>
  /\ cores = NoCores

NextMainPair == StepA \/ StepB \/ DrawA \/ DrawB

SpecMainPair == InitMainPair /\ [][NextMainPair]_vars

\* what the data set of a main.js stepper holds
M_contents(s) ==
  CASE s.cls \in M_SortClasses -> <<s.arr>>
    [] s.cls \in M_SearchClasses -> <<s.arr, s.target, s.found, s.foundIndex>>
    [] s.cls \in M_GraphClasses -> <<s.walls, s.visited, s.path>>
    [] s.cls \in M_TreeClasses -> <<s.nodes, s.root, s.traversalOrder>>

M_Obs(s) == <<s.stats, M_contents(s), s.isDone>>

----------------------------------------------------------------------------
(***************************************************************************)
(* main.js re-initialisation: a stepper in any state gets init(seed, size) *)
(* (once, or twice in a row), a second stepper is constructed and          *)
(* initialised with the same (seed, size), and the two are stepped         *)
(* together.                                                               *)
(***************************************************************************)
InitMainReinit ==
  /\ \E cls \in M_Classes, seed \in Seeds, size \in Sizes :
       simA = M_init(M_constructed(cls), seed, size)
  /\ arr0 = Dataset(simA)
  /\ simB = NoSim
  /\ sfx = <<>>
  /\ cores = NoCores

RunA == simB = NoSim /\ StepA

ReinitA ==
  /\ simB = NoSim
  /\ \E seed \in Seeds, size \in Sizes, twice \in BOOLEAN :
       /\ simA' = IF twice THEN M_init(M_init(simA, seed, size), seed, size)
                  ELSE M_init(simA, seed, size)
       /\ simB' = M_init(M_constructed(simA.cls), seed, size)
  /\ arr0' = Dataset(simA')
  /\ sfx' = <<>>
  /\ UNCHANGED cores

StepBoth ==
  /\ simB # NoSim
  /\ simA' = Quiet(Step(simA))
  /\ simB' = Quiet(Step(simB))
  /\ sfx' = Step(simA).out
  /\ UNCHANGED <<cores, arr0>>

NextMainReinit == RunA \/ ReinitA \/ StepBoth

SpecMainReinit == InitMainReinit /\ [][NextMainReinit]_vars

\* C9: after init(seed, size) on a main.js stepper in any state, finished is
\* false and every stats counter is 0, and step by step its stats, data set
\* and finished equal those of a newly constructed stepper initialised with
\* the same (seed, size); the same holds when init was called twice in a row.
C9_ReinitIsFresh ==
  simB.cls \in M_Classes =>
    /\ M_Obs(simA) = M_Obs(simB)
    /\ (simB.stats.steps = 0 /\ ~simB.isDone) =>
         (~simA.isDone /\ \A f \in DOMAIN simA.stats : simA.stats[f] = 0)

C9_Witness ==
  /\ simA.cls = "M.PreOrderTraversal" /\ simB.cls = "M.PreOrderTraversal"
  /\ simA.currentNode = stale /\ simB.currentNode = 0
  /\ Len(simA.nodes) > 2
  /\ ~simA.isDone /\ simA.stats.nodesVisited = 0

----------------------------------------------------------------------------
(***************************************************************************)
(* script.js: the registry.  An entry holds one core object, built once    *)
(* when the entry is registered; create() returns a stepper whose arr, hi, *)
(* done and stats are its own and whose step() calls into the entry's      *)
(* core.  cores maps an entry to the variables its core closes over.       *)
(* A registry stepper also records ev, what core.step returned in the last *)
(* step() call ("none" before the first call).                             *)
(***************************************************************************)
\* the closure variables of the cores as registration leaves them
R_cores ==
  ("R.Bubble Sort" :> [i |-> 0, j |-> 0, n |-> 0])
    @@ ("R.Insertion Sort" :> [i |-> 1])
    @@ ("R.Selection Sort" :> [i |-> 0])
    @@ ("R.Linear Search" :> [i |-> 0])
    @@ ("R.Binary Search" :> [l |-> 0, r |-> 0])
    @@ ("R.Jump Search" :> [step |-> 0, prev |-> 0, i |-> 0, n |-> 0])
    @@ ("R.Interpolation Search" :> [l |-> 0, r |-> 0])

\* hi[k] = c
R_hi(s, k, c) == [s EXCEPT !.hi = (k :> c) @@ @]

\* what a call into a core leaves: its closure variables, the stepper, the
\* value returned
R_ret(c, s, ev) == [core |-> c, sim |-> s, ev |-> ev]

R_ArrayStats == [steps |-> 0, comps |-> 0, swaps |-> 0]

\* ---- Bubble Sort core
R_BubbleSort_init(a) == [i |-> 0, j |-> 0, n |-> Len(a)]

R_BubbleSort_step(c, s) ==
  LET s1 == Inc(R_hi(R_hi(s, c.j, "hi"), c.j + 1, "hi"), "comps", 1)
  IN IF JsGt(At(s.arr, c.j), At(s.arr, c.j + 1))
     THEN R_ret([c EXCEPT !.j = @ + 1],
                Inc([s1 EXCEPT !.arr = Swap(@, c.j, c.j + 1)], "swaps", 1),
                "swap")
     ELSE IF c.j + 1 >= c.n - 1 - c.i
          THEN R_ret([c EXCEPT !.j = 0, !.i = @ + 1], s1,
                     IF c.i + 1 >= c.n - 1 THEN "done" ELSE "visit")
          ELSE R_ret([c EXCEPT !.j = @ + 1], s1, "visit")

R_BubbleSort_finished(c, a) == c.i >= c.n - 1

\* ---- Insertion Sort core
R_InsertionSort_init(a) == [i |-> 1]

RECURSIVE R_InsertionSort_while(_, _)
R_InsertionSort_while(s, j) ==
  IF j > 0
  THEN LET s1 == R_hi(R_hi(Inc(s, "comps", 1), j, "hi"), j - 1, "hi")
       IN IF JsLt(At(s.arr, j), At(s.arr, j - 1))
          THEN R_InsertionSort_while(
                 Snd(Inc([s1 EXCEPT !.arr = Swap(@, j, j - 1)], "swaps", 1), "swap"),
                 j - 1)
          ELSE s1
  ELSE s

R_InsertionSort_step(c, s) ==
  IF c.i >= Len(s.arr) THEN R_ret(c, s, "done")
  ELSE R_ret([c EXCEPT !.i = @ + 1], R_InsertionSort_while(s, c.i), "visit")

R_InsertionSort_finished(c, a) == c.i >= Len(a)

\* ---- Selection Sort core
R_SelectionSort_init(a) == [i |-> 0]

RECURSIVE R_SelectionSort_scan(_, _, _)
\* for(k...) if(a[k] < a[min]) min = k
R_SelectionSort_scan(a, k, min) ==
  IF k >= Len(a) THEN min
  ELSE R_SelectionSort_scan(a, k + 1, IF JsLt(At(a, k), At(a, min)) THEN k ELSE min)

R_SelectionSort_step(c, s) ==
  IF c.i >= Len(s.arr) - 1 THEN R_ret(c, s, "done")
  ELSE LET min == R_SelectionSort_scan(s.arr, c.i + 1, c.i)
           s1 == Inc(s, "comps", Len(s.arr) - 1 - c.i)
           s2 == IF min # c.i
                 THEN Inc([s1 EXCEPT !.arr = Swap(@, c.i, min)], "swaps", 1)
                 ELSE s1
       IN R_ret([c EXCEPT !.i = @ + 1], s2, "swap")

R_SelectionSort_finished(c, a) == c.i >= Len(a) - 1

R_ArrayClasses == {"R.Bubble Sort", "R.Insertion Sort", "R.Selection Sort"}

R_arrayCore_init(cls, a) ==
  CASE cls = "R.Bubble Sort" -> R_BubbleSort_init(a)
    [] cls = "R.Insertion Sort" -> R_InsertionSort_init(a)
    [] cls = "R.Selection Sort" -> R_SelectionSort_init(a)

R_arrayCore_step(c, s) ==
  CASE s.cls = "R.Bubble Sort" -> R_BubbleSort_step(c, s)
    [] s.cls = "R.Insertion Sort" -> R_InsertionSort_step(c, s)
    [] s.cls = "R.Selection Sort" -> R_SelectionSort_step(c, s)

R_arrayCore_finished(cls, c, a) ==
  CASE cls = "R.Bubble Sort" -> R_BubbleSort_finished(c, a)
    [] cls = "R.Insertion Sort" -> R_InsertionSort_finished(c, a)
    [] cls = "R.Selection Sort" -> R_SelectionSort_finished(c, a)

\* ---- makeArrayAlgo: the stepper create() returns, then its init and step
R_makeArrayAlgo_create(cls) ==
  [cls |-> cls, arr |-> <<>>, hi |-> <<>>, done |-> FALSE, stats |-> R_ArrayStats,
   ev |-> "none", out |-> <<>>]

\* init(seed, size), arr being Data.array(size, rng)
R_makeArrayAlgo_init(s, arr) ==
  R_ret(R_arrayCore_init(s.cls, arr),
        [s EXCEPT !.arr = arr, !.hi = <<>>, !.done = FALSE, !.stats = R_ArrayStats],
        "none")

\* SFX[ev]() when ev is one of the events the wrapper sounds
R_notify(s, ev, on) == IF ev \in on THEN Snd(s, ev) ELSE s

R_makeArrayAlgo_step(c, s) ==
  IF s.done THEN R_ret(c, s, s.ev)
  ELSE LET r == R_arrayCore_step(c, s)
           s1 == R_notify(Inc(r.sim, "steps", 1), r.ev, {"swap", "visit"})
       IN IF R_arrayCore_finished(s.cls, r.core, s1.arr)
          THEN R_ret(r.core, Snd([s1 EXCEPT !.done = TRUE], "done"), r.ev)
          ELSE R_ret(r.core, s1, r.ev)

\* ---- Linear Search core
R_LinearSearch_init(a) == [i |-> 0]

R_LinearSearch_step(c, s) ==
  IF c.i >= Len(s.arr) THEN R_ret(c, s, "done")
  ELSE LET hit == At(s.arr, c.i) = s.target
           s1 == R_hi(Inc(s, "comps", 1), c.i, IF hit THEN "good" ELSE "hi")
       IN IF hit THEN R_ret(c, s1, "done")
          ELSE R_ret([c EXCEPT !.i = @ + 1], s1, "visit")

\* finished(){ return false; }
R_LinearSearch_finished(c) == FALSE

\* ---- Binary Search core
R_BinarySearch_init(a) == [l |-> 0, r |-> Len(a) - 1]

R_BinarySearch_step(c, s) ==
  IF c.l > c.r THEN R_ret(c, s, "done")
  ELSE LET m == (c.l + c.r) \div 2
           s1 == R_hi(Inc(s, "comps", 1), m, "hi")
       IN IF At(s.arr, m) = s.target THEN R_ret(c, R_hi(s1, m, "good"), "done")
          ELSE IF JsLt(At(s.arr, m), s.target)
               THEN R_ret([c EXCEPT !.l = m + 1], s1, "visit")
               ELSE R_ret([c EXCEPT !.r = m - 1], s1, "visit")

R_BinarySearch_finished(c) == FALSE

\* ---- Jump Search core
R_JumpSearch_init(a) == [step |-> Isqrt(Len(a)), prev |-> 0, i |-> 0, n |-> Len(a)]

RECURSIVE R_JumpSearch_for(_, _, _)
\* the linear scan of the block: <<the stepper, i when the loop is left>>
R_JumpSearch_for(s, i, blockEnd) ==
  IF i > blockEnd THEN <<s, i>>
  ELSE LET s1 == R_hi(Inc(s, "comps", 1), i, "hi")
       IN IF At(s.arr, i) = s.target THEN <<R_hi(s1, i, "good"), i>>
          ELSE R_JumpSearch_for(s1, i + 1, blockEnd)

R_JumpSearch_step(c, s) ==
  IF c.prev >= c.n THEN R_ret(c, s, "done")
  ELSE LET blockEnd == Min(c.n - 1, c.prev + c.step - 1)
           s1 == R_hi(Inc(s, "comps", 1), blockEnd, "hi")
       IN IF JsLe(s.target, At(s.arr, blockEnd))
          THEN LET f == R_JumpSearch_for(s1, c.prev, blockEnd)
               IN R_ret([c EXCEPT !.i = f[2]], f[1], "done")
          ELSE R_ret([c EXCEPT !.prev = @ + c.step], s1,
                     IF c.prev + c.step >= c.n THEN "done" ELSE "visit")

R_JumpSearch_finished(c) == FALSE

\* ---- Interpolation Search core
R_InterpolationSearch_init(a) == [l |-> 0, r |-> Len(a) - 1]

\* clamp(v, min, max) = Math.max(min, Math.min(max, v))
R_clamp(v, min, max) ==
  LET w == IF max < v THEN max ELSE v IN IF min > w THEN min ELSE w

R_InterpolationSearch_step(c, s) ==
  IF c.l > c.r \/ At(s.arr, c.l) = At(s.arr, c.r) THEN R_ret(c, s, "done")
  ELSE LET al == At(s.arr, c.l)
           pos == c.l + ((s.target - al) * (c.r - c.l)) \div (At(s.arr, c.r) - al)
           m == R_clamp(pos, c.l, c.r)
           s1 == R_hi(Inc(s, "comps", 1), m, "hi")
       IN IF At(s.arr, m) = s.target THEN R_ret(c, R_hi(s1, m, "good"), "done")
          ELSE IF JsLt(At(s.arr, m), s.target)
               THEN R_ret([c EXCEPT !.l = m + 1], s1, "visit")
               ELSE R_ret([c EXCEPT !.r = m - 1], s1, "visit")

R_InterpolationSearch_finished(c) == FALSE

R_SearchClasses ==
  {"R.Linear Search", "R.Binary Search", "R.Jump Search", "R.Interpolation Search"}

R_searchCore_init(cls, a) ==
  CASE cls = "R.Linear Search" -> R_LinearSearch_init(a)
    [] cls = "R.Binary Search" -> R_BinarySearch_init(a)
    [] cls = "R.Jump Search" -> R_JumpSearch_init(a)
    [] cls = "R.Interpolation Search" -> R_InterpolationSearch_init(a)

R_searchCore_step(c, s) ==
  CASE s.cls = "R.Linear Search" -> R_LinearSearch_step(c, s)
    [] s.cls = "R.Binary Search" -> R_BinarySearch_step(c, s)
    [] s.cls = "R.Jump Search" -> R_JumpSearch_step(c, s)
    [] s.cls = "R.Interpolation Search" -> R_InterpolationSearch_step(c, s)

R_searchCore_finished(cls, c) ==
  CASE cls = "R.Linear Search" -> R_LinearSearch_finished(c)
    [] cls = "R.Binary Search" -> R_BinarySearch_finished(c)
    [] cls = "R.Jump Search" -> R_JumpSearch_finished(c)
    [] cls = "R.Interpolation Search" -> R_InterpolationSearch_finished(c)

R_SearchStats == [steps |-> 0, comps |-> 0]

\* ---- makeSearchAlgo
R_makeSearchAlgo_create(cls) ==
  [cls |-> cls, arr |-> <<>>, target |-> null, hi |-> <<>>, done |-> FALSE,
   stats |-> R_SearchStats, ev |-> "none", out |-> <<>>]

RECURSIVE R_insertSorted(_, _)
R_insertSorted(a, v) ==
  IF a = <<>> \/ a[Len(a)] <= v THEN Append(a, v)
  ELSE Append(R_insertSorted(SubSeq(a, 1, Len(a) - 1), v), a[Len(a)])

RECURSIVE R_sortedArray(_)
\* Data.sortedArray: the generated array after .sort((a, b) => a - b)
R_sortedArray(a) ==
  IF a = <<>> THEN <<>>
  ELSE R_insertSorted(R_sortedArray(SubSeq(a, 1, Len(a) - 1)), a[Len(a)])

\* init(seed, size): arr is the sorted generated array, target arr[k] for the
\* index k drawn, undefined when arr is empty
R_makeSearchAlgo_init(s, arr, k) ==
  R_ret(R_searchCore_init(s.cls, arr),
        [s EXCEPT !.arr = arr, !.target = At(arr, k), !.done = FALSE,
                  !.stats = R_SearchStats, !.hi = <<>>],
        "none")

R_makeSearchAlgo_step(c, s) ==
  IF s.done THEN R_ret(c, s, s.ev)
  ELSE LET r == R_searchCore_step(c, s)
           s1 == R_notify(Inc(r.sim, "steps", 1), r.ev, {"visit"})
       IN IF R_searchCore_finished(s.cls, r.core)
          THEN R_ret(r.core, Snd([s1 EXCEPT !.done = TRUE], "done"), r.ev)
          ELSE R_ret(r.core, s1, r.ev)

\* ---- makeGridAlgo.  The grid is GridSize x GridSize (20 x 20 in the source),
\* a cell is <<x, y>>, grid maps a cell to its weight w.  The grid cores are
\* object literals without variables of their own.
R_start == <<0, 0>>

R_goal == <<GridSize - 1, GridSize - 1>>

R_dirs == <<<<1, 0>>, <<0 - 1, 0>>, <<0, 1>>, <<0, 0 - 1>>>>

R_nb(cur, d) == <<cur[1] + R_dirs[d][1], cur[2] + R_dirs[d][2]>>

\* index of the first frontier entry at cell c, 0 when there is none
R_find(q, c) ==
  IF \E k \in 1..Len(q) : q[k].c = c
  THEN CHOOSE k \in 1..Len(q) : q[k].c = c /\ \A h \in 1..(k - 1) : q[h].c # c
  ELSE 0

\* idx of the scan: the first entry whose key fld is the least
R_least(q, fld) ==
  CHOOSE k \in 1..Len(q) :
    /\ \A h \in 1..Len(q) : q[k][fld] <= q[h][fld]
    /\ \A h \in 1..(k - 1) : q[h][fld] > q[k][fld]

\* ---- BFS core
R_BFS_init(s) == [s EXCEPT !.frontier = Push(@, R_start), !.visited = @ \cup {R_start}]

R_BFS_step(s) ==
  IF s.frontier = <<>> THEN R_ret(<<>>, s, "done")
  ELSE LET cur == Head(s.frontier)
           s1 == [s EXCEPT !.frontier = Tail(@)]
           fresh == {d \in 1..Len(R_dirs) :
                       R_nb(cur, d) \in Cells /\ R_nb(cur, d) \notin s.visited}
       IN IF cur = R_goal THEN R_ret(<<>>, s1, "done")
          ELSE IF fresh = {} THEN R_ret(<<>>, s1, "undefined")
          ELSE LET d == CHOOSE e \in fresh : \A g \in fresh : e <= g
                   nk == R_nb(cur, d)
               IN R_ret(<<>>,
                        [s1 EXCEPT !.visited = @ \cup {nk},
                                   !.cameFrom = (nk :> cur) @@ @,
                                   !.frontier = Push(@, nk)],
                        "visit")

\* ---- DFS core
R_DFS_init(s) == [s EXCEPT !.frontier = Push(@, R_start)]

RECURSIVE R_DFS_for(_, _, _)
R_DFS_for(s, cur, d) ==
  IF d > Len(R_dirs) THEN s
  ELSE LET nk == R_nb(cur, d)
       IN IF nk \in Cells /\ nk \notin s.visited
          THEN R_DFS_for([s EXCEPT !.cameFrom = (nk :> cur) @@ @,
                                   !.frontier = Push(@, nk)], cur, d + 1)
          ELSE R_DFS_for(s, cur, d + 1)

R_DFS_step(s) ==
  IF s.frontier = <<>> THEN R_ret(<<>>, s, "done")
  ELSE LET cur == Top(s.frontier)
           s1 == [s EXCEPT !.frontier = Pop(@)]
       IN IF cur \in s.visited THEN R_ret(<<>>, s1, "undefined")
          ELSE LET s2 == [s1 EXCEPT !.visited = @ \cup {cur}]
               IN IF cur = R_goal THEN R_ret(<<>>, s2, "done")
                  ELSE R_ret(<<>>, R_DFS_for(s2, cur, 1), "visit")

\* ---- Dijkstra's core: a frontier entry is [c, d]
R_Dijkstra_init(s) == [s EXCEPT !.frontier = Push(@, [c |-> R_start, d |-> 0])]

RECURSIVE R_Dijkstra_for(_, _, _)
R_Dijkstra_for(s, cur, d) ==
  IF d > Len(R_dirs) THEN s
  ELSE LET nk == R_nb(cur.c, d)
       IN IF nk \notin Cells \/ nk \in s.visited THEN R_Dijkstra_for(s, cur, d + 1)
          ELSE LET nd == cur.d + s.grid[nk]
                   ex == R_find(s.frontier, nk)
               IN IF ex = 0
                  THEN R_Dijkstra_for(
                         [s EXCEPT !.frontier = Push(@, [c |-> nk, d |-> nd]),
                                   !.cameFrom = (nk :> cur.c) @@ @], cur, d + 1)
                  ELSE IF nd < s.frontier[ex].d
                  THEN R_Dijkstra_for(
                         [s EXCEPT !.frontier[ex].d = nd,
                                   !.cameFrom = (nk :> cur.c) @@ @], cur, d + 1)
                  ELSE R_Dijkstra_for(s, cur, d + 1)

R_Dijkstra_step(s) ==
  IF s.frontier = <<>> THEN R_ret(<<>>, s, "done")
  ELSE LET idx == R_least(s.frontier, "d")
           cur == s.frontier[idx]
           s1 == [s EXCEPT !.frontier = Splice(@, idx)]
       IN IF cur.c \in s.visited THEN R_ret(<<>>, s1, "undefined")
          ELSE LET s2 == [s1 EXCEPT !.visited = @ \cup {cur.c}]
               IN IF cur.c = R_goal THEN R_ret(<<>>, s2, "done")
                  ELSE R_ret(<<>>, R_Dijkstra_for(s2, cur, 1), "visit")

\* ---- A* Search core: a frontier entry is [c, g, f]
R_AStar_init(s) ==
  [s EXCEPT !.frontier = Push(@, [c |-> R_start, g |-> 0, f |-> 0])]

RECURSIVE R_AStar_for(_, _, _)
R_AStar_for(s, cur, d) ==
  IF d > Len(R_dirs) THEN s
  ELSE LET nk == R_nb(cur.c, d)
       IN IF nk \notin Cells THEN R_AStar_for(s, cur, d + 1)
          ELSE LET g == cur.g + s.grid[nk]
                   h == Abs(R_goal[1] - nk[1]) + Abs(R_goal[2] - nk[2])
                   f == g + h
                   ex == R_find(s.frontier, nk)
               IN IF ex = 0
                  THEN R_AStar_for(
                         [s EXCEPT !.frontier = Push(@, [c |-> nk, g |-> g, f |-> f]),
                                   !.cameFrom = (nk :> cur.c) @@ @], cur, d + 1)
                  ELSE IF f < s.frontier[ex].f
                  THEN R_AStar_for(
                         [s EXCEPT !.frontier[ex].g = g, !.frontier[ex].f = f,
                                   !.cameFrom = (nk :> cur.c) @@ @], cur, d + 1)
                  ELSE R_AStar_for(s, cur, d + 1)

R_AStar_step(s) ==
  IF s.frontier = <<>> THEN R_ret(<<>>, s, "done")
  ELSE LET idx == R_least(s.frontier, "f")
           cur == s.frontier[idx]
           s1 == [s EXCEPT !.frontier = Splice(@, idx)]
       IN IF cur.c \in s.visited THEN R_ret(<<>>, s1, "undefined")
          ELSE LET s2 == [s1 EXCEPT !.visited = @ \cup {cur.c}]
               IN IF cur.c = R_goal THEN R_ret(<<>>, s2, "done")
                  ELSE R_ret(<<>>, R_AStar_for(s2, cur, 1), "visit")

R_GridClasses == {"R.BFS", "R.DFS", "R.Dijkstra's", "R.A* Search"}

R_gridCore_init(s) ==
  CASE s.cls = "R.BFS" -> R_BFS_init(s)
    [] s.cls = "R.DFS" -> R_DFS_init(s)
    [] s.cls = "R.Dijkstra's" -> R_Dijkstra_init(s)
    [] s.cls = "R.A* Search" -> R_AStar_init(s)

R_gridCore_step(s) ==
  CASE s.cls = "R.BFS" -> R_BFS_step(s)
    [] s.cls = "R.DFS" -> R_DFS_step(s)
    [] s.cls = "R.Dijkstra's" -> R_Dijkstra_step(s)
    [] s.cls = "R.A* Search" -> R_AStar_step(s)

\* core.finished?.(...): the grid cores define no finished, the call yields
\* undefined
R_gridCore_finished(s) == FALSE

R_makeGridAlgo_create(cls) ==
  [cls |-> cls, grid |-> <<>>, visited |-> {}, frontier |-> <<>>,
   cameFrom |-> <<>>, done |-> FALSE, ev |-> "none", out |-> <<>>]

\* init(seed), grid being Data.grid(size, rng)
R_makeGridAlgo_init(s, grid) ==
  R_gridCore_init([s EXCEPT !.grid = grid, !.visited = {}, !.frontier = <<>>,
                            !.cameFrom = <<>>, !.done = FALSE])

R_makeGridAlgo_step(s) ==
  IF s.done THEN R_ret(<<>>, s, s.ev)
  ELSE LET r == R_gridCore_step(s)
           s1 == R_notify(r.sim, r.ev, {"visit"})
       IN IF R_gridCore_finished(s1)
          THEN R_ret(<<>>, Snd([s1 EXCEPT !.done = TRUE], "done"), r.ev)
          ELSE R_ret(<<>>, s1, r.ev)

\* ---- step() on a registry stepper, cs being the closures of all entries
R_step(cs, s) ==
  CASE s.cls \in R_ArrayClasses -> R_makeArrayAlgo_step(cs[s.cls], s)
    [] s.cls \in R_SearchClasses -> R_makeSearchAlgo_step(cs[s.cls], s)
    [] s.cls \in R_GridClasses -> R_makeGridAlgo_step(s)

\* the closures once the core of entry cls has left c
R_after(cs, cls, c) == IF cls \in DOMAIN cs THEN [cs EXCEPT ![cls] = c] ELSE cs

\* stats.steps grows with every call on an unfinished stepper: the model
\* stops calling at MaxSteps
R_mayStep(s) == "stats" \in DOMAIN s => s.stats.steps < MaxSteps

R_StepA ==
  /\ R_mayStep(simA)
  /\ LET r == R_step(cores, simA)
     IN /\ simA' = Quiet([r.sim EXCEPT !.ev = r.ev])
        /\ sfx' = r.sim.out
        /\ cores' = R_after(cores, simA.cls, r.core)
  /\ UNCHANGED <<simB, arr0>>

R_StepB ==
  /\ R_mayStep(simB)
  /\ LET r == R_step(cores, simB)
     IN /\ simB' = Quiet([r.sim EXCEPT !.ev = r.ev])
        /\ sfx' = r.sim.out
        /\ cores' = R_after(cores, simB.cls, r.core)
  /\ UNCHANGED <<simA, arr0>>

\* the grids explored: weight 1 everywhere but on at most two cells of
\* weight MaxVal
R_Grids ==
  {[c \in Cells |-> 1]}
    \cup {[c \in Cells |-> IF c \in {a, b} THEN MaxVal ELSE 1] : a, b \in Cells}

\* spec.create() then init(seed, size) for a search entry
R_newSearch(cls, arr, k) ==
  LET r == R_makeSearchAlgo_init(R_makeSearchAlgo_create(cls), arr, k)
  IN [sim |-> r.sim, cores |-> R_after(R_cores, cls, r.core)]

\* the index drawn for the target is Math.floor(rng() * arr.length)
R_SearchNews ==
  UNION {{R_newSearch(cls, R_sortedArray(a), k) :
            k \in 0..(IF a = <<>> THEN 0 ELSE Len(a) - 1)} :
           cls \in R_SearchClasses, a \in Arrays}

----------------------------------------------------------------------------
(***************************************************************************)
(* script.js, one search or grid stepper of the registry, stepped.         *)
(***************************************************************************)
InitRegistry ==
  /\ \/ \E n \in R_SearchNews :
          simA = n.sim /\ cores = n.cores /\ arr0 = n.sim.arr
     \/ \E cls \in R_GridClasses, grid \in R_Grids :
          /\ simA = R_makeGridAlgo_init(R_makeGridAlgo_create(cls), grid)
          /\ cores = R_cores
          /\ arr0 = grid
  /\ simB = NoSim
  /\ sfx = <<>>

NextRegistry == R_StepA

SpecRegistry == InitRegistry /\ [][NextRegistry]_vars

\* C5: a stepper built by makeSearchAlgo or makeGridAlgo is finished as soon
\* as a step() call has found the target, exhausted the search space, popped
\* the goal or found the frontier empty, that is, as soon as its core has
\* reported 'done'.
C5_FinishedWhenCoreDone ==
  (simA.cls \in R_SearchClasses \cup R_GridClasses /\ simA.ev = "done") => simA.done

----------------------------------------------------------------------------
(***************************************************************************)
(* script.js, two sorting steppers of the registry created and initialised *)
(* one after the other with the same (seed, size), as createControllers    *)
(* does, then stepped in any order.  arr0 is the array both start from.    *)
(***************************************************************************)
\* spec.create() then init(seed, size) for a sorting entry, cs being the
\* closures before
R_newArray(cs, cls, arr) ==
  LET r == R_makeArrayAlgo_init(R_makeArrayAlgo_create(cls), arr)
  IN [sim |-> r.sim, cores |-> R_after(cs, cls, r.core)]

InitRegistryPair ==
  \E clsA, clsB \in R_ArrayClasses :
    \E arr \in UNION {[1..n -> 1..MaxVal] : n \in 0..MaxPairLen} :
      LET a == R_newArray(R_cores, clsA, arr)
          b == R_newArray(a.cores, clsB, arr)
      IN /\ simA = a.sim
         /\ simB = b.sim
         /\ cores = b.cores
         /\ arr0 = arr
         /\ sfx = <<>>

NextRegistryPair == R_StepA \/ R_StepB

SpecRegistryPair == InitRegistryPair /\ [][NextRegistryPair]_vars

RECURSIVE R_alone(_, _, _)
\* the stepper after k step() calls when it is the only one calling into its
\* core
R_alone(c, s, k) ==
  IF k = 0 THEN s
  ELSE LET r == R_makeArrayAlgo_step(c, s)
       IN R_alone(r.core, Quiet([r.sim EXCEPT !.ev = r.ev]), k - 1)

\* what the claim compares: data set, stats, finished
R_Obs(s) == <<s.arr, s.stats, s.done>>

\* C8: with two registry steppers stepped in any order, each one's data set,
\* stats and finished are, after its k-th effective step() call, what they
\* are after k calls on a stepper that runs alone from the same array.
C8_SteppersIndependent ==
  \A s \in {simA, simB} :
    s.cls \in R_ArrayClasses =>
      LET n == R_newArray(R_cores, s.cls, arr0)
      IN R_Obs(s) = R_Obs(R_alone(n.cores[s.cls], n.sim, s.stats.steps))

----------------------------------------------------------------------------
(***************************************************************************)
(* part_000 pathfinding: one stepper run by step() calls, on every wall    *)
(* set of at most MaxWalls cells.                                          *)
(***************************************************************************)
InitPartPath == Single(P_PathInits)

NextPartPath == StepA

SpecPartPath == InitPartPath /\ [][NextPartPath]_vars

RECURSIVE Flood(_, _, _)
\* the least number of 4-neighbour moves from the start to the goal through
\* cells outside walls, seen being the cells within k moves; -1 when there
\* is no such way
Flood(walls, seen, k) ==
  IF M_goal \in seen THEN k
  ELSE LET more == seen \cup {c \in Cells \ walls : \E d \in seen : Adjacent(c, d)}
       IN IF more = seen THEN 0 - 1 ELSE Flood(walls, more, k + 1)

ShortestMoves(walls) == Flood(walls, {M_start}, 0)

\* C11: part_000 BFS, once finished, has stats.pathLength (and a path of
\* that many cells) equal to the least number of 4-neighbour moves from start
\* to goal when the goal can be reached, and an empty path when it cannot.
C11_BFSShortest ==
  (simA.cls = "P.BFS" /\ simA.isComplete) =>
    LET d == ShortestMoves(simA.isWall)
    IN IF d >= 0
       THEN simA.stats.pathLength = d /\ Len(simA.path) = d
       ELSE simA.path = <<>> /\ simA.stats.pathLength = 0

\* BFS finished after a detour round walls
C11_Witness ==
  /\ simA.cls = "P.BFS" /\ simA.isComplete
  /\ simA.stats.pathLength > 2
  /\ simA.stats.pathLength = ShortestMoves(simA.isWall)

RECURSIVE P_run(_, _)
\* step() repeated until the stepper is finished (at most fuel calls)
P_run(s, fuel) ==
  IF s.isComplete \/ fuel = 0 THEN s ELSE P_run(Quiet(Step(s)), fuel - 1)

\* C12: part_000 AStar and Dijkstra, once finished, have reached the goal
\* exactly when BFS run to its end on the same grid has, and then with the
\* same stats.pathLength as BFS.
C12_SameAsBFS ==
  (simA.cls \in {"P.AStar", "P.Dijkstra"} /\ simA.isComplete) =>
    LET bfs == P_run(P_BFS_init(simA.isWall), 2 * GridSize * GridSize)
    IN /\ bfs.isComplete
       /\ (simA.path # <<>>) <=> (bfs.path # <<>>)
       /\ simA.stats.pathLength = bfs.stats.pathLength

C12_Witness ==
  /\ simA.cls = "P.AStar" /\ simA.isComplete
  /\ simA.stats.pathLength > 2
  /\ simA.stats.nodesVisited < Cardinality(Cells \ simA.isWall)

----------------------------------------------------------------------------
(***************************************************************************)
(* Generated grids: the pathfinders of main.js and of part_000 on the grid *)
(* their init builds from a seed.                                          *)
(***************************************************************************)
\* the seeds explored: 0..MaxGridSeed and as many from 66850 on
GridSeeds == (0..MaxGridSeed) \cup (66850..(66850 + MaxGridSeed))

M_SeededGraphInits ==
  {M_new(cls, M_GraphData(seed)) : cls \in M_GraphClasses, seed \in GridSeeds}

P_SeededPathInits ==
  {P_PathInit(cls, P_GridData(seed)) : cls \in P_PathClasses, seed \in GridSeeds}

InitSeededGrid == Single(M_SeededGraphInits \cup P_SeededPathInits)

NextSeededGrid == StepA

SpecSeededGrid == InitSeededGrid /\ [][NextSeededGrid]_vars

\* the wall cells of a pathfinder's grid
WallsOf(s) == IF s.cls \in M_GraphClasses THEN s.walls ELSE s.isWall

\* C13: the grid built by init from a seed, in main.js and in part_000 (after
\* ensurePath), has a path of 4-adjacent open cells from start to goal.
C13_GridHasPath ==
  simA.cls \in M_GraphClasses \cup P_PathClasses => ShortestMoves(WallsOf(simA)) >= 0

\* C13, main.js alone
C13_MainGridHasPath ==
  simA.cls \in M_GraphClasses => ShortestMoves(simA.walls) >= 0

\* C13, part_000 alone
C13_PartGridHasPath ==
  simA.cls \in P_PathClasses => ShortestMoves(simA.isWall) >= 0

----------------------------------------------------------------------------
(***************************************************************************)
(* main.js trees: one traversal stepper run by step() calls, on the tree   *)
(* built from every array over 1..MaxVal, every shuffle of 1..n and the    *)
(* values TreeAlgorithm.init generates from the seeds 0..MaxSeed.          *)
(***************************************************************************)
TreeValues ==
  Arrays \cup UNION {Perms(n) : n \in 0..MaxLen}
         \cup {M_TreeData(seed, size) : seed \in 0..MaxSeed, size \in 0..MaxLen}

M_TreeInputs == {M_new(cls, values) : cls \in M_TreeClasses, values \in TreeValues}

InitMainTree == Single(M_TreeInputs)

NextMainTree == StepA

SpecMainTree == InitMainTree /\ [][NextMainTree]_vars

RECURSIVE InTree(_, _)
\* the references to the nodes of the subtree at reference r
InTree(nodes, r) ==
  IF r = 0 THEN {}
  ELSE {r} \cup InTree(nodes, nodes[r].left) \cup InTree(nodes, nodes[r].right)

\* C14: a finished InOrderTraversal has traversalOrder strictly ascending,
\* holding each value stored in the tree exactly once.
C14_InOrderAscending ==
  (simA.cls = "M.InOrderTraversal" /\ simA.isDone) =>
     LET t == simA.traversalOrder
         stored == InTree(simA.nodes, simA.root)
     IN /\ \A i \in 1..(Len(t) - 1) : t[i] < t[i + 1]
        /\ {t[i] : i \in 1..Len(t)} = {simA.nodes[r].value : r \in stored}
        /\ Len(t) = Cardinality(stored)

\* a finished in-order traversal of a tree with a node that has two children
C14_Witness ==
  /\ simA.cls = "M.InOrderTraversal" /\ simA.isDone
  /\ Len(simA.traversalOrder) >= 4
  /\ \E r \in 1..Len(simA.nodes) : simA.nodes[r].left # 0 /\ simA.nodes[r].right # 0

RECURSIVE PreOrder(_, _)
\* the values of the subtree at r, root first, then left, then right
PreOrder(nodes, r) ==
  IF r = 0 THEN <<>>
  ELSE <<nodes[r].value>> \o PreOrder(nodes, nodes[r].left)
                          \o PreOrder(nodes, nodes[r].right)

RECURSIVE PostOrder(_, _)
\* the values of the subtree at r, left first, then right, then the root
PostOrder(nodes, r) ==
  IF r = 0 THEN <<>>
  ELSE PostOrder(nodes, nodes[r].left) \o PostOrder(nodes, nodes[r].right)
                                       \o <<nodes[r].value>>

\* C15: PreOrderTraversal builds traversalOrder in recursive root-left-right
\* order and PostOrderTraversal in left-right-root order: at every moment it
\* is a prefix of that order, one node is marked visited per value in it and
\* counted in stats.nodesVisited, and when finished it is the whole order, so
\* every node was marked exactly once and nodesVisited is the number of nodes.
C15_TraversalOrders ==
  simA.cls \in {"M.PreOrderTraversal", "M.PostOrderTraversal"} =>
     LET t == simA.traversalOrder
         want == IF simA.cls = "M.PreOrderTraversal"
                 THEN PreOrder(simA.nodes, simA.root)
                 ELSE PostOrder(simA.nodes, simA.root)
         marked == {r \in 1..Len(simA.nodes) : simA.nodes[r].visited}
     IN /\ Len(t) <= Len(want)
        /\ t = SubSeq(want, 1, Len(t))
        /\ {simA.nodes[r].value : r \in marked} = {t[i] : i \in 1..Len(t)}
        /\ Cardinality(marked) = Len(t)
        /\ simA.stats.nodesVisited = Len(t)
        /\ simA.isDone =>
             /\ t = want
             /\ marked = InTree(simA.nodes, simA.root)
             /\ simA.stats.nodesVisited = Len(simA.nodes)

\* a finished post-order traversal of a tree with a two-child node
C15_Witness ==
  /\ simA.cls = "M.PostOrderTraversal" /\ simA.isDone
  /\ simA.stats.nodesVisited >= 4
  /\ \E r \in 1..Len(simA.nodes) : simA.nodes[r].left # 0 /\ simA.nodes[r].right # 0

\* a finished pre-order traversal of a tree with a two-child node
C15_WitnessPre ==
  /\ simA.cls = "M.PreOrderTraversal" /\ simA.isDone
  /\ simA.stats.nodesVisited >= 4
  /\ \E r \in 1..Len(simA.nodes) : simA.nodes[r].left # 0 /\ simA.nodes[r].right # 0

----------------------------------------------------------------------------
(***************************************************************************)
(* main.js trees built by init(seed, size): here arr0 is the sequence of   *)
(* the first size values rng.int(1, 99) yields from the seed, and simA is  *)
(* initialised, stepped and initialised again.                             *)
(***************************************************************************)
\* the sizes tried: small ones and those around the cap of init
TreeSizes == (0..MaxLen) \cup {M_TreeCap, M_TreeCap + 2}

\* the first size values of the generator's sequence
Drawn(seed, size) == M_ints(M_SeededRNG(seed), size, 1, 99)[1]

InitSeededTree ==
  /\ \E cls \in M_TreeClasses, seed \in 0..MaxSeed, size \in TreeSizes :
       /\ simA = M_init(M_constructed(cls), seed, size)
       /\ arr0 = Drawn(seed, size)
  /\ simB = NoSim
  /\ sfx = <<>>
  /\ cores = NoCores

\* init(seed, size) on the live stepper
M_TreeReinit ==
  /\ \E seed \in 0..MaxSeed, size \in TreeSizes :
       /\ simA' = M_init(simA, seed, size)
       /\ arr0' = Drawn(seed, size)
  /\ sfx' = <<>>
  /\ UNCHANGED <<simB, cores>>

NextSeededTree == StepA \/ M_TreeReinit

SpecSeededTree == InitSeededTree /\ [][NextSeededTree]_vars

\* C16: after TreeAlgorithm.init(seed, size) the tree is a binary search tree
\* (left subtree smaller, right subtree larger), nodes holds exactly one node
\* per distinct value among the first min(size, 31) generated values, every
\* one of them in the tree, and there are never more than 31 nodes.
C16_TreeIsBST ==
  simA.cls \in M_TreeClasses =>
     LET nodes == simA.nodes
         kept == IF Len(arr0) < 31 THEN Len(arr0) ELSE 31
         distinct == {arr0[i] : i \in 1..kept}
     IN /\ \A r \in 1..Len(nodes) :
             /\ \A l \in InTree(nodes, nodes[r].left) : nodes[l].value < nodes[r].value
             /\ \A g \in InTree(nodes, nodes[r].right) : nodes[g].value > nodes[r].value
        /\ {nodes[r].value : r \in 1..Len(nodes)} = distinct
        /\ Len(nodes) = Cardinality(distinct)
        /\ InTree(nodes, simA.root) = 1..Len(nodes)
        /\ Len(nodes) <= 31

\* a tree from more than 31 requested values, some of the kept ones repeated
C16_Witness ==
  /\ simA.cls \in M_TreeClasses
  /\ Len(arr0) > 31
  /\ Len(simA.nodes) > 20 /\ Len(simA.nodes) < 31
  /\ \E i \in 1..Len(arr0) : i > 31 /\ \A r \in 1..Len(simA.nodes) : simA.nodes[r].value # arr0[i]

----------------------------------------------------------------------------
(***************************************************************************)
(* script.js: the machine-learning steppers.  The registry entries         *)
(* 'k-means' and 'perceptron' keep their state in the closure of create(); *)
(* the class KMeans is an Algorithm object.  The coordinates of the points *)
(* and the weights are real numbers the model does not carry: the registry *)
(* steppers hold the number of points, and the outcome of a pass (the      *)
(* nearest centre of each point, the points misclassified) is an input of  *)
(* the step.                                                               *)
(***************************************************************************)
\* the value of undefined + 1
NaN == 0 - 4

\* Math.round(Math.sqrt(size / 12)): the r with r - 1/2 <= sqrt(size/12) < r + 1/2
R_roundSqrt(size) ==
  CHOOSE r \in 0..(size + 1) :
    /\ r = 0 \/ 3 * (2 * r - 1) * (2 * r - 1) <= size
    /\ size < 3 * (2 * r + 1) * (2 * r + 1)

\* 'k-means' create() and init(seed, size)
R_kMeans_init(size) ==
  [cls |-> "R.k-Means Clustering", points |-> size,
   k |-> R_clamp(R_roundSqrt(size), 2, 8),
   assign |-> [i \in 1..size |-> 0 - 1], done |-> FALSE, iter |-> 0, out |-> <<>>]

RECURSIVE R_kMeans_assign(_, _, _)
\* for (i < points.length) { ...; if (assign[i] !== bi) { assign[i] = bi; SFX.visit() } }
R_kMeans_assign(s, best, i) ==
  IF i > s.points THEN s
  ELSE R_kMeans_assign(IF s.assign[i] # best[i]
                       THEN Snd([s EXCEPT !.assign[i] = best[i]], "visit")
                       ELSE s,
                       best, i + 1)

\* 'k-means' step(); best[i] is the centre the distance loop finds nearest to point i
R_kMeans_step(s, best) ==
  IF s.done THEN s
  ELSE LET s1 == R_kMeans_assign(s, best, 1)
           changed == s1.assign # s.assign
           s2 == [s1 EXCEPT !.iter = @ + 1]
       IN IF ~changed \/ s2.iter > 60
          THEN Snd([s2 EXCEPT !.done = TRUE], "done")
          ELSE s2

\* 'perceptron' create() and init(seed, size)
R_Perceptron_init(size) ==
  [cls |-> "R.Perceptron", points |-> size, done |-> FALSE, iter |-> 0, out |-> <<>>]

RECURSIVE R_Perceptron_pass(_, _, _)
\* for (i < points.length) { if (yhat !== y) { errs++; ...; SFX.swap() } else SFX.visit() }
R_Perceptron_pass(s, wrong, i) ==
  IF i > s.points THEN s
  ELSE R_Perceptron_pass(Snd(s, IF i \in wrong THEN "swap" ELSE "visit"), wrong, i + 1)

\* 'perceptron' step(); wrong is the set of points the pass finds misclassified
R_Perceptron_step(s, wrong) ==
  IF s.done THEN s
  ELSE LET errs == Cardinality(wrong)
           s1 == [R_Perceptron_pass(s, wrong, 1) EXCEPT !.iter = @ + 1]
       IN IF errs = 0 \/ s1.iter > 40
          THEN Snd([s1 EXCEPT !.done = TRUE], "done")
          ELSE s1

\* script.js class Algorithm, the constructor, then the properties a KMeans
\* object gets later: has is the set of those assigned so far
S_Algorithm(cls) ==
  [cls |-> cls, isDone |-> FALSE, has |-> {}, k |-> undefined, points |-> <<>>,
   iterations |-> undefined, threw |-> FALSE, out |-> <<>>]

\* KMeans.init: rng is the method random taken off its object, so the first
\* rng() reads this.mulberry32 of undefined and throws; with size 0 the points
\* callback never runs and the centroids callback throws instead
S_KMeans_init(old, size) ==
  [old EXCEPT !.k = 5, !.has = IF size = 0 THEN @ \cup {"k", "points"} ELSE @ \cup {"k"},
              !.points = IF size = 0 THEN <<>> ELSE @,
              !.threw = TRUE, !.out = <<>>]

\* KMeans.step: iterating this.points throws while it is undefined, and so
\* does reading this.centroids[i] for a point
S_KMeans_step(s) ==
  IF s.isDone THEN [s EXCEPT !.threw = FALSE]
  ELSE IF "points" \notin s.has \/ (s.points # <<>> /\ "centroids" \notin s.has)
  THEN [s EXCEPT !.threw = TRUE]
  ELSE LET s1 == Snd([s EXCEPT !.threw = FALSE], "visit")
           s2 == [s1 EXCEPT !.iterations = IF "iterations" \in s.has THEN @ + 1 ELSE NaN,
                            !.has = @ \cup {"iterations"}]
       IN IF s.points = <<>> \/ (s2.iterations # NaN /\ s2.iterations > 50)
          THEN Snd([s2 EXCEPT !.isDone = TRUE], "finish")
          ELSE s2

ML_Classes == {"R.k-Means Clustering", "R.Perceptron", "S.KMeans"}

\* create() or new, then init(seed, size)
ML_new(cls, size) ==
  CASE cls = "R.k-Means Clustering" -> R_kMeans_init(size)
    [] cls = "R.Perceptron" -> R_Perceptron_init(size)
    [] cls = "S.KMeans" -> S_KMeans_init(S_Algorithm(cls), size)

\* init(seed, size) on a live stepper
ML_init(s, size) ==
  IF s.cls = "S.KMeans" THEN S_KMeans_init(s, size) ELSE ML_new(s.cls, size)

\* the outcomes of one step() call
ML_step(s) ==
  CASE s.cls = "R.k-Means Clustering" ->
         {R_kMeans_step(s, best) : best \in [1..s.points -> 0..(s.k - 1)]}
    [] s.cls = "R.Perceptron" ->
         {R_Perceptron_step(s, wrong) : wrong \in SUBSET (1..s.points)}
    [] s.cls = "S.KMeans" -> {S_KMeans_step(s)}

ML_finished(s) == IF s.cls = "S.KMeans" THEN s.isDone ELSE s.done

\* here arr0 counts the step() calls made since the last init
InitML ==
  /\ \E cls \in ML_Classes, size \in 0..MaxPoints : simA = ML_new(cls, size)
  /\ arr0 = 0
  /\ simB = NoSim
  /\ sfx = <<>>
  /\ cores = NoCores

ML_StepA ==
  /\ arr0 < MaxCalls
  /\ \E t \in ML_step(simA) : simA' = Quiet(t) /\ sfx' = t.out
  /\ arr0' = arr0 + 1
  /\ UNCHANGED <<simB, cores>>

ML_InitA ==
  /\ \E size \in 0..MaxPoints : simA' = ML_init(simA, size)
  /\ arr0' = 0
  /\ sfx' = <<>>
  /\ UNCHANGED <<simB, cores>>

NextML == ML_StepA \/ ML_InitA

SpecML == InitML /\ [][NextML]_vars

\* C17: the k-means registry stepper is finished after at most 61 step()
\* calls, the perceptron stepper after at most 41 and the KMeans class after
\* at most 51, whatever each pass finds.
C17_CappedSteps ==
  /\ (simA.cls = "R.k-Means Clustering" /\ arr0 >= 61) => simA.done
  /\ (simA.cls = "R.Perceptron" /\ arr0 >= 41) => simA.done
  /\ (simA.cls = "S.KMeans" /\ arr0 >= 51) => simA.isDone

\* C17, the two registry steppers alone
C17_RegistryCapped ==
  /\ (simA.cls = "R.k-Means Clustering" /\ arr0 >= 61) => simA.done
  /\ (simA.cls = "R.Perceptron" /\ arr0 >= 41) => simA.done

\* a k-means stepper stopped by the cap, its last pass still moving a point
C17_RegistryAtCap ==
  /\ simA.cls = "R.k-Means Clustering" /\ simA.done /\ simA.iter = 61
  /\ Len(sfx) >= 2

\* a KMeans object never finishes once init(seed, size >= 1) has thrown
C17_KMeansStuck ==
  (simA.cls = "S.KMeans" /\ "points" \notin simA.has) => ~simA.isDone

----------------------------------------------------------------------------
(***************************************************************************)
(* The two BubbleSort steppers, of main.js and of part_000, on every array *)
(* over 1..MaxVal of length 0..MaxLen.  stats.steps is incremented by each *)
(* step() call on an unfinished stepper and by no other, so it is the      *)
(* number of calls made up to and including the finishing one.             *)
(***************************************************************************)
BubbleInits ==
  {M_new("M.BubbleSort", arr) : arr \in Arrays}
    \cup {P_SortInit("P.BubbleSort", arr) : arr \in Arrays}

InitBubble == Single(BubbleInits)

NextBubble == StepA

SpecBubble == InitBubble /\ [][NextBubble]_vars

\* the length of the array a sorting stepper works on
SizeOf(s) == Len(Dataset(s))

\* C18 as stated: BubbleSort of main.js and of part_000 is finished after at
\* most n(n-1)/2 + n step() calls, for every n from 0 upward: a stepper not
\* yet finished has had fewer calls than that.
C18_BubbleBound ==
  (simA.cls \in {"M.BubbleSort", "P.BubbleSort"} /\ ~Finished(simA)) =>
     LET n == SizeOf(simA)
     IN simA.stats.steps < (n * (n - 1)) \div 2 + n

\* C18, amended: the bound is n(n-1)/2 + n for n >= 1 and one call for n = 0
C18_BubbleBoundFromOne ==
  (simA.cls \in {"M.BubbleSort", "P.BubbleSort"} /\ ~Finished(simA)) =>
     LET n == SizeOf(simA)
     IN simA.stats.steps < (n * (n - 1)) \div 2 + (IF n = 0 THEN 1 ELSE n)

\* a part_000 BubbleSort that finished on the last call the bound allows
C18_Witness ==
  /\ simA.cls = "P.BubbleSort" /\ simA.isComplete
  /\ SizeOf(simA) >= 3
  /\ simA.stats.steps = (SizeOf(simA) * (SizeOf(simA) - 1)) \div 2 + SizeOf(simA)

\* an empty BubbleSort of main.js, finished by its first call
C18_EmptyNeedsOneCall ==
  /\ simA.cls = "M.BubbleSort" /\ simA.isDone
  /\ SizeOf(simA) = 0 /\ simA.stats.steps = 1

----------------------------------------------------------------------------
(***************************************************************************)
(* main.js sorting and searching together: one stepper run by step()       *)
(* calls, the degenerate sizes 0 and 1 among the inputs.                   *)
(***************************************************************************)
InitMainArrays == Single(M_SortInits \cup M_SearchInits)

NextMainArrays == StepA

SpecMainArrays == InitMainArrays /\ [][NextMainArrays]_vars

\* the stepper is as init left it
Fresh(s) ==
  s = M_new(s.cls, IF s.cls \in M_SearchClasses THEN <<s.arr, s.target>> ELSE s.arr)

\* C19: a sorting or search stepper of main.js initialised with size 0 or 1
\* is finished after its first step() call.
C19_DegenerateOneCall ==
  [][(/\ simA.cls \in M_SortClasses \cup M_SearchClasses
      /\ SizeOf(simA) <= 1
      /\ Fresh(simA)) => Finished(simA')]_vars

\* C19 for the steppers that do keep it: Bubble, Selection, Insertion, Linear
\* and Binary finish a size 0 or 1 input in their first call
C19_OthersOneCall ==
  [][(/\ simA.cls \in (M_SortClasses \cup M_SearchClasses)
                        \ {"M.QuickSort", "M.MergeSort", "M.HeapSort"}
      /\ SizeOf(simA) <= 1
      /\ Fresh(simA)) => Finished(simA')]_vars

\* QuickSort, MergeSort and HeapSort finish a size 0 or 1 input in their
\* second call, never in the first
C19_StackSortsTwoCalls ==
  (simA.cls \in {"M.QuickSort", "M.MergeSort", "M.HeapSort"} /\ SizeOf(simA) <= 1) =>
     (simA.isDone <=> simA.stats.steps = 2)

----------------------------------------------------------------------------
(***************************************************************************)
(* main.js, every stepper class: one stepper stepped, drawn and            *)
(* initialised again on the data it started with.                          *)
(***************************************************************************)
\* what init generated for the stepper, recovered from the initial data set
DataOf(s, first) ==
  CASE s.cls \in M_SearchClasses -> <<first, s.target>>
    [] s.cls \in M_TreeClasses -> [i \in 1..Len(first) |-> first[i].value]
    [] OTHER -> first

InitMainSteps ==
  Single(M_SortInits \cup M_SearchInits \cup M_GraphInits \cup M_TreeInits)

\* init(seed, size) again, with the seed and size of the last init
M_Again ==
  /\ simA' = M_initWith(simA, DataOf(simA, arr0))
  /\ sfx' = <<>>
  /\ UNCHANGED <<simB, cores, arr0>>

NextMainSteps == StepA \/ DrawA \/ M_Again

SpecMainSteps == InitMainSteps /\ [][NextMainSteps]_vars

\* C20: every step() call on a stepper of main.js that is not finished adds
\* exactly 1 to stats.steps, the call that sets finished included, and between
\* two init calls stats.steps never goes down.
C20_StepsCount ==
  [][/\ (StepA /\ ~Finished(simA)) => simA'.stats.steps = simA.stats.steps + 1
     /\ ~M_Again => simA'.stats.steps >= simA.stats.steps]_vars

\* C20, its second half: between two init calls stats.steps never goes down
C20_StepsNeverDrop ==
  [][~M_Again => simA'.stats.steps >= simA.stats.steps]_vars

\* C20, its first half for the sorting, search and tree steppers
C20_ArrayAndTreeCount ==
  [][(StepA /\ ~Finished(simA) /\ simA.cls \notin M_GraphClasses)
       => simA'.stats.steps = simA.stats.steps + 1]_vars

\* the cells a graph stepper has still to expand
Pending(s) == IF s.cls = "M.AStar" THEN s.openSet ELSE s.frontier

\* C20, its first half for the graph steppers while a cell is pending; the
\* call that finds nothing pending finishes and leaves stats.steps as it was
C20_GraphCountWhilePending ==
  [][(StepA /\ ~Finished(simA) /\ simA.cls \in M_GraphClasses)
       => simA'.stats.steps = simA.stats.steps + (IF Pending(simA) # <<>> THEN 1 ELSE 0)]_vars

\* the pairs i < j of a with a[i] > a[j]
Inversions(a) == Cardinality({p \in (1..Len(a)) \X (1..Len(a)) : p[1] < p[2] /\ a[p[1]] > a[p[2]]})

\* C21: when BubbleSort of main.js is finished, stats.swaps is the number of
\* inversions of the initial array, and the first step() on an array of two
\* or more elements reads indices 0 and 1 and changes the array and the
\* annotations nowhere else.
C21_SwapsAreInversions ==
  [][/\ (simA'.cls = "M.BubbleSort" /\ simA'.isDone) =>
           simA'.stats.swaps = Inversions(arr0)
     /\ (simA.cls = "M.BubbleSort" /\ Fresh(simA) /\ Len(simA.arr) >= 2) =>
           /\ \A k \in 3..Len(simA.arr) : simA'.arr[k] = simA.arr[k]
           /\ {simA'.arr[1], simA'.arr[2]} = {simA.arr[1], simA.arr[2]}
           /\ simA'.arr[1] <= simA'.arr[2]
           /\ DOMAIN simA'.highlights \subseteq {0, 1}
           /\ simA'.stats.comparisons = 1 /\ simA'.stats.accesses = 2]_vars

\* a finished BubbleSort of main.js that made four or more exchanges
C21_Witness ==
  /\ simA.cls = "M.BubbleSort" /\ simA.isDone
  /\ simA.stats.swaps >= 4 /\ simA.stats.swaps = Inversions(arr0)

\* a stepper without its annotations
NoHl(s) == [s EXCEPT !.highlights = <<>>]

\* C22: draw() on a sorting or search stepper of main.js empties highlights
\* and changes nothing else, and the step() that follows gives the same data
\* set, progress state, stats, finished and notifications as without the draw().
C22_DrawOnlyClearsHighlights ==
  simA.cls \in M_SortClasses \cup M_SearchClasses =>
     /\ Draw(simA).highlights = <<>>
     /\ Draw(simA) = NoHl(simA)
     /\ NoHl(Step(Draw(simA))) = NoHl(Step(simA))

\* a BubbleSort in mid-run just after a draw(): no annotation and no
\* notification, which a step() of an unfinished BubbleSort never leaves
C22_Witness ==
  /\ simA.cls = "M.BubbleSort" /\ ~simA.isDone
  /\ simA.stats.swaps >= 1 /\ simA.stats.steps >= 2
  /\ simA.highlights = <<>> /\ sfx = <<>>

----------------------------------------------------------------------------
(***************************************************************************)
(* script.js, the frame loop on one array or search stepper of the         *)
(* registry: each frame is step() on the unfinished stepper, then draw().  *)
(***************************************************************************)
\* draw(ctx){ clear(ctx); drawBars(ctx, arr, hi); }: paints, assigns nothing
R_makeArrayAlgo_draw(s) == s

InitRegistryFrame ==
  /\ \/ \E cls \in R_ArrayClasses, arr \in Arrays :
          LET n == R_newArray(R_cores, cls, arr)
          IN simA = n.sim /\ cores = n.cores /\ arr0 = arr
     \/ \E n \in R_SearchNews :
          simA = n.sim /\ cores = n.cores /\ arr0 = n.sim.arr
  /\ simB = NoSim
  /\ sfx = <<>>

\* one pass of loop(ts) while running: if (!ctrlA.finished) ctrlA.step(dt);
\* ctrlA.draw(ctxA)
R_FrameA ==
  /\ R_mayStep(simA)
  /\ ~simA.done
  /\ LET r == R_step(cores, simA)
     IN /\ simA' = R_makeArrayAlgo_draw(Quiet([r.sim EXCEPT !.ev = r.ev]))
        /\ sfx' = r.sim.out
        /\ cores' = R_after(cores, simA.cls, r.core)
  /\ UNCHANGED <<simB, arr0>>

NextRegistryFrame == R_FrameA

SpecRegistryFrame == InitRegistryFrame /\ [][NextRegistryFrame]_vars

\* C23: for the steppers of makeArrayAlgo and makeSearchAlgo under the frame
\* loop, the annotation map hi is empty after each draw().
C23_HiEmptyAfterDraw ==
  simA.cls \in R_ArrayClasses \cup R_SearchClasses => simA.hi = <<>>

\* hi only ever grows between two init calls: what one frame annotated is
\* still annotated in every later frame
C23_HiOnlyGrows ==
  [][DOMAIN simA.hi \subseteq DOMAIN simA'.hi]_vars

\* the classes of the notifications the last call sent
Sent == {sfx[k] : k \in 1..Len(sfx)}

\* C24: a single step() call of a stepper of main.js sends notifications of
\* at most one class among compare, swap, access and finish.
C24_OneNotificationClass ==
  simA.cls \in M_Classes => Cardinality(Sent) <= 1

\* the classes whose every step() call does send at most one class
C24_SingleClassSteppers ==
  simA.cls \in {"M.BubbleSort", "M.QuickSort", "M.MergeSort", "M.HeapSort",
                "M.InsertionSort", "M.LinearSearch", "M.BinarySearch",
                "M.InOrderTraversal", "M.PostOrderTraversal"} => Cardinality(Sent) <= 1

----------------------------------------------------------------------------
(***************************************************************************)
(* main.js: the App object (lines 1179-1379).  In the App specifications   *)
(* cores holds the object's own fields: isRunning, the battle-mode class   *)
(* of the main element, the values of the category, algorithm and size     *)
(* controls, and seed.  arr0 is the record of the last handler that ran:   *)
(* its name, whether the step interval had elapsed when it was loop, and   *)
(* the step() and draw() calls it made, in order.  Date.now() and the      *)
(* frame timestamps are inputs.                                            *)
(***************************************************************************)
M_ALGORITHMS ==
  [sorting |-> <<"M.BubbleSort", "M.SelectionSort", "M.InsertionSort",
                 "M.QuickSort", "M.MergeSort", "M.HeapSort">>,
   searching |-> <<"M.LinearSearch", "M.BinarySearch">>,
   graph |-> <<"M.BFS", "M.DFS", "M.Dijkstra", "M.AStar">>,
   tree |-> <<"M.InOrderTraversal", "M.PreOrderTraversal",
              "M.PostOrderTraversal">>]

M_Categories == DOMAIN M_ALGORITHMS

\* the seeds Date.now() gives and the positions of the size slider explored
MaxAppSeed == 1

MaxAppSize == 3

AppSeeds == 0..MaxAppSeed

AppSizes == 0..MaxAppSize

IdsOf(cat) == {M_ALGORITHMS[cat][k] : k \in 1..Len(M_ALGORITHMS[cat])}

\* algoIds.find(id => id !== algoId) || algoIds[1] || algoId
M_App_otherAlgoId(cat, algoId) ==
  LET ids == M_ALGORITHMS[cat]
      diff == {k \in 1..Len(ids) : ids[k] # algoId}
  IN IF diff # {} THEN ids[CHOOSE k \in diff : \A m \in diff : k <= m]
     ELSE IF Len(ids) >= 2 THEN ids[2]
     ELSE algoId

\* drawAll(): a.draw(), then b.draw() when simB exists
M_App_drawAll(a, b) ==
  [simA |-> Draw(a),
   simB |-> IF b = NoSim THEN NoSim ELSE Draw(b),
   calls |-> <<"A.draw">> \o (IF b = NoSim THEN <<>> ELSE <<"B.draw">>)]

\* a resetSim() that initialises simB with the next seed
M_App_resetSim_otherSeed(app) ==
  [simA |-> [cls |-> app.algorithm, seed |-> app.seed, size |-> app.size],
   simB |-> IF app.battle
            THEN [cls |-> M_App_otherAlgoId(app.category, app.algorithm),
                  seed |-> app.seed + 1, size |-> app.size]
            ELSE NoSim]

\* resetSim() once the seed is settled: the class each stepper is built from
\* and the arguments of its init()
M_App_resetSim(app) ==
  [simA |-> [cls |-> app.algorithm, seed |-> app.seed, size |-> app.size],
   simB |-> IF app.battle
            THEN [cls |-> M_App_otherAlgoId(app.category, app.algorithm),
                  seed |-> app.seed, size |-> app.size]
            ELSE NoSim]

\* a resetSim() that steps the new stepper once before it is shown
M_App_build_stepped(n) ==
  IF n = NoSim THEN NoSim
  ELSE Quiet(Step(M_init(M_constructed(n.cls), n.seed, n.size)))


\* new Class(canvas, sfx, name), then init(seed, size)
M_App_build(n) ==
  IF n = NoSim THEN NoSim ELSE M_init(M_constructed(n.cls), n.seed, n.size)

\* a loop that steps while paused
M_App_due_paused(app, elapsedEnough) == elapsedEnough

\* this.isRunning && elapsed >= stepDelay
M_App_due(app, elapsedEnough) == app.isRunning /\ elapsedEnough

\* a loop body that steps simB before simA
M_App_stepBoth_bFirst(a, b, sa, sb) ==
  LET stepB == b # NoSim /\ ~Finished(b)
      stepA == ~Finished(a)
  IN [simA |-> IF stepA THEN Quiet(sa) ELSE a,
      simB |-> IF stepB THEN Quiet(sb) ELSE b,
      calls |-> (IF stepB THEN <<"B.step">> ELSE <<>>)
                  \o (IF stepA THEN <<"A.step">> ELSE <<>>),
      out |-> (IF stepB THEN sb.out ELSE <<>>)
                \o (IF stepA THEN sa.out ELSE <<>>),
      stepped |-> stepA \/ stepB]

\* the stepping part of loop when the interval has elapsed, sa and sb being
\* what step() makes of a and b: the unfinished steppers are stepped, A first
M_App_stepBoth(a, b, sa, sb) ==
  LET stepA == ~Finished(a)
      stepB == b # NoSim /\ ~Finished(b)
  IN [simA |-> IF stepA THEN Quiet(sa) ELSE a,
      simB |-> IF stepB THEN Quiet(sb) ELSE b,
      calls |-> (IF stepA THEN <<"A.step">> ELSE <<>>)
                  \o (IF stepB THEN <<"B.step">> ELSE <<>>),
      out |-> (IF stepA THEN sa.out ELSE <<>>)
                \o (IF stepB THEN sb.out ELSE <<>>),
      stepped |-> stepA \/ stepB]

AllFinished(a, b) == Finished(a) /\ (b = NoSim \/ Finished(b))

\* loop(timestamp), one animation frame
M_App_loop ==
  \E elapsedEnough \in BOOLEAN :
    \E sa \in {Step(simA)}, sb \in {IF simB = NoSim THEN NoSim ELSE Step(simB)} :
      \E p \in {IF M_App_due(cores, elapsedEnough)
                THEN M_App_stepBoth(simA, simB, sa, sb)
                ELSE [simA |-> simA, simB |-> simB, calls |-> <<>>, out |-> <<>>,
                      stepped |-> FALSE]} :
        \E d \in {IF p.stepped THEN M_App_drawAll(p.simA, p.simB)
                  ELSE [simA |-> p.simA, simB |-> p.simB, calls |-> <<>>]} :
          /\ simA' = d.simA
          /\ simB' = d.simB
          /\ sfx' = p.out
          /\ cores' = [cores EXCEPT
                         !.isRunning = IF M_App_due(cores, elapsedEnough)
                                          /\ AllFinished(d.simA, d.simB)
                                       THEN FALSE ELSE @]
          /\ arr0' = [handler |-> "loop", due |-> elapsedEnough,
                      calls |-> p.calls \o d.calls]

\* togglePlayPause(): the play button or the space key
M_App_togglePlayPause ==
  /\ cores' = [cores EXCEPT !.isRunning = ~@]
  /\ arr0' = [handler |-> "togglePlayPause", due |-> FALSE, calls |-> <<>>]
  /\ sfx' = <<>>
  /\ UNCHANGED <<simA, simB>>

\* a handler that ends in resetSim(), app being the fields it reads
ResetTo(app, handler) ==
  \E n \in {M_App_resetSim(app)} :
    \E a \in {M_App_build(n.simA)}, b \in {M_App_build(n.simB)} :
      \E d \in {M_App_drawAll(a, b)} :
        /\ cores' = [app EXCEPT !.isRunning = FALSE]
        /\ simA' = d.simA
        /\ simB' = d.simB
        /\ sfx' = <<>>
        /\ arr0' = [handler |-> handler, due |-> FALSE, calls |-> d.calls]

\* change of the category control: updateAlgorithmList() selects the first
\* algorithm of the category, then resetSim()
M_App_categoryChange ==
  \E cat \in M_Categories \ {cores.category} :
    ResetTo([cores EXCEPT !.category = cat, !.algorithm = M_ALGORITHMS[cat][1]],
            "category")

\* change of the algorithm control, then resetSim()
M_App_algorithmChange ==
  \E id \in IdsOf(cores.category) \ {cores.algorithm} :
    ResetTo([cores EXCEPT !.algorithm = id], "algorithm")

\* input on the size slider, then resetSim()
M_App_sizeInput ==
  \E size \in AppSizes \ {cores.size} :
    ResetTo([cores EXCEPT !.size = size], "size")

\* the reset button or the R key: resetSim(true) takes a new seed
M_App_resetClick ==
  \E now \in AppSeeds : ResetTo([cores EXCEPT !.seed = now], "reset")

\* toggleBattleMode(): the battle button or the B key
M_App_toggleBattleMode ==
  ResetTo([cores EXCEPT !.battle = ~@], "battle")

\* new App(): the first category and its first algorithm are selected
InitMainApp ==
  \E seed \in AppSeeds, size \in AppSizes :
    \E app \in {[isRunning |-> FALSE, battle |-> FALSE, category |-> "sorting",
                 algorithm |-> M_ALGORITHMS["sorting"][1], size |-> size,
                 seed |-> seed]} :
      \E a \in {M_App_build(M_App_resetSim(app).simA)} :
        \E d \in {M_App_drawAll(a, NoSim)} :
          /\ cores = app
          /\ simA = d.simA
          /\ simB = d.simB
          /\ sfx = <<>>
          /\ arr0 = [handler |-> "constructor", due |-> FALSE, calls |-> d.calls]

NextMainApp ==
  \/ M_App_loop
  \/ M_App_togglePlayPause
  \/ M_App_categoryChange
  \/ M_App_algorithmChange
  \/ M_App_sizeInput
  \/ M_App_resetClick
  \/ M_App_toggleBattleMode

SpecMainApp == InitMainApp /\ [][NextMainApp]_vars

\* the calls a stepping frame makes on the pair a, b
FrameCalls(a, b) ==
  LET ua == ~Finished(a)
      ub == b # NoSim /\ ~Finished(b)
  IN (IF ua THEN <<"A.step">> ELSE <<>>)
       \o (IF ub THEN <<"B.step">> ELSE <<>>)
       \o (IF ua \/ ub
           THEN <<"A.draw">> \o (IF b = NoSim THEN <<>> ELSE <<"B.draw">>)
           ELSE <<>>)

\* C25: in every frame of main.js App.loop in which the app is running and the
\* step interval has elapsed, each unfinished stepper is stepped exactly once,
\* simA before simB, both before simA.draw() and then simB.draw(); a finished
\* stepper is not stepped and B is never stepped before A.
C25_FrameOrder ==
  [][(arr0'.handler = "loop" /\ arr0'.due /\ cores.isRunning) =>
       /\ arr0'.calls = FrameCalls(simA, simB)
       /\ simA' = (IF ~Finished(simA) THEN Draw(Quiet(Step(simA)))
                   ELSE IF simB # NoSim /\ ~Finished(simB) THEN Draw(simA)
                   ELSE simA)
       /\ simB' = (IF simB = NoSim THEN NoSim
                   ELSE IF ~Finished(simB) THEN Draw(Quiet(Step(simB)))
                   ELSE IF ~Finished(simA) THEN Draw(simB)
                   ELSE simB)]_vars

\* a frame that stepped and drew both steppers
C25_Witness ==
  /\ arr0.handler = "loop"
  /\ arr0.calls = <<"A.step", "B.step", "A.draw", "B.draw">>
  /\ simA.stats.steps >= 2

\* a frame of a battle in which A had finished and only B was stepped
C25_WitnessOnlyB ==
  /\ arr0.handler = "loop"
  /\ arr0.calls = <<"B.step", "A.draw", "B.draw">>

RECURSIVE OnRun(_, _, _)
\* s is cur or comes from cur by frames that step it, at most fuel of them
OnRun(s, cur, fuel) ==
  \/ s = cur
  \/ /\ fuel > 0
     /\ ~Finished(cur)
     /\ OnRun(s, Draw(Quiet(Step(cur))), fuel - 1)

\* the stepper resetSim() builds for the class of s from the App's fields
Built(app, s) == Draw(M_init(M_constructed(s.cls), app.seed, app.size))

\* C26: while isRunning is false a frame of main.js App.loop calls step() on
\* no stepper and changes neither stepper, for any number of frames;
\* togglePlayPause() only flips isRunning; so each stepper is always at a
\* point of its own uninterrupted run, with no step lost or repeated.
C26_PauseKeepsState ==
  [][/\ (arr0'.handler = "loop" /\ ~cores.isRunning) =>
          /\ simA' = simA
          /\ simB' = simB
          /\ arr0'.calls = <<>>
          /\ ~cores'.isRunning
     /\ arr0'.handler = "togglePlayPause" =>
          /\ simA' = simA
          /\ simB' = simB
          /\ cores'.isRunning = ~cores.isRunning
     /\ OnRun(simA', Built(cores', simA'), MaxCalls)
     /\ simB' # NoSim => OnRun(simB', Built(cores', simB'), MaxCalls)]_vars

\* a frame that ran while the app was paused in the middle of a battle
C26_Witness ==
  /\ arr0.handler = "loop"
  /\ ~cores.isRunning
  /\ simB # NoSim
  /\ simA.stats.steps >= 2
  /\ ~Finished(simA)
  /\ ~Finished(simB)

\* the handlers of main.js that end in resetSim()
ResetHandlers == {"category", "algorithm", "size", "reset", "battle"}

\* C28: when a UI event handler of main.js that rebuilds the simulation
\* (category change, algorithm change, size input, reset, battle toggle) has
\* completed, simB exists exactly when battle mode is on; simA and simB were
\* initialised with the App's seed and size, and simB runs another algorithm
\* of the selected category than simA.
C28_BattlePair ==
  [][arr0'.handler \in ResetHandlers =>
       /\ (simB' # NoSim) <=> cores'.battle
       /\ simA'.cls = cores'.algorithm
       /\ simA' = Built(cores', simA')
       /\ simB' # NoSim =>
            /\ simB' = Built(cores', simB')
            /\ simB'.cls # simA'.cls
            /\ {simA'.cls, simB'.cls} \subseteq IdsOf(cores'.category)]_vars

\* battle mode switched on with the last tree traversal selected: simB runs
\* the first one
C28_Witness ==
  /\ arr0.handler = "battle"
  /\ cores.battle
  /\ cores.seed = MaxAppSeed
  /\ cores.size = MaxAppSize
  /\ simA.cls = "M.PostOrderTraversal"
  /\ simB # NoSim
  /\ simB.cls = "M.InOrderTraversal"

----------------------------------------------------------------------------
(***************************************************************************)
(* script.js: the App runner of the registry (lines 427-462) on the first  *)
(* three sorting entries.  arr0 holds its closure variables and what       *)
(* stands for the page: running, whether the battle canvas is shown, the   *)
(* array the current seed generates, the number of loop callbacks          *)
(* requested for the next animation frame (pending), the number still to   *)
(* run in the current frame (todo), and the number of step() calls the     *)
(* current frame has made on ctrlA and on ctrlB.  The callbacks requested  *)
(* for a frame all run in that frame, one after the other; a callback      *)
(* requested while they run is run in the next frame; clicks are handled   *)
(* between frames.                                                         *)
(***************************************************************************)
MaxPending == 3

R_SortList == <<"R.Bubble Sort", "R.Insertion Sort", "R.Selection Sort">>

MaxAppVal == 2

PairArrays == UNION {[1..n -> 1..MaxAppVal] : n \in 0..MaxPairLen}

\* list.find(a => a.id !== spec.id) || spec
R_App_alt(cls) == IF cls # R_SortList[1] THEN R_SortList[1] ELSE R_SortList[2]

\* createControllers(): ctrlA, and ctrlB when the battle canvas is shown
R_App_createControllers(cs, cls, battle, arr) ==
  LET a == R_newArray(cs, cls, arr)
      b == R_newArray(a.cores, R_App_alt(cls), arr)
  IN IF battle THEN [simA |-> a.sim, simB |-> b.sim, cores |-> b.cores]
     ELSE [simA |-> a.sim, simB |-> NoSim, cores |-> a.cores]

\* one call of loop(ts), a callback of the current frame
R_App_loop ==
  /\ arr0.todo > 0
  /\ \E ra \in {R_step(cores, simA)} :
       \E stepA \in {arr0.running /\ ~simA.done},
          stepB \in {arr0.running /\ simB # NoSim /\ ~simB.done} :
         \E c1 \in {IF stepA THEN R_after(cores, simA.cls, ra.core) ELSE cores} :
           \E rb \in {IF stepB THEN R_step(c1, simB) ELSE NoSim} :
             \E a1 \in {IF stepA THEN Quiet([ra.sim EXCEPT !.ev = ra.ev]) ELSE simA},
                b1 \in {IF stepB THEN Quiet([rb.sim EXCEPT !.ev = rb.ev]) ELSE simB} :
               /\ simA' = (IF arr0.running THEN R_makeArrayAlgo_draw(a1) ELSE a1)
               /\ simB' = (IF arr0.running /\ simB # NoSim
                           THEN R_makeArrayAlgo_draw(b1) ELSE b1)
               /\ cores' = (IF stepB THEN R_after(c1, simB.cls, rb.core) ELSE c1)
               /\ sfx' = (IF stepA THEN ra.sim.out ELSE <<>>)
                           \o (IF stepB THEN rb.sim.out ELSE <<>>)
               /\ arr0' = [arr0 EXCEPT
                             !.todo = @ - 1,
                             !.pending = @ + 1,
                             !.stepsA = @ + (IF stepA THEN 1 ELSE 0),
                             !.stepsB = @ + (IF stepB THEN 1 ELSE 0),
                             !.running = arr0.running
                                           /\ ~(a1.done /\ (simB = NoSim \/ b1.done))]

\* the browser begins an animation frame: the callbacks requested so far are
\* the ones it runs
R_App_frame ==
  /\ arr0.todo = 0
  /\ arr0' = [arr0 EXCEPT !.todo = arr0.pending, !.pending = 0,
                          !.stepsA = 0, !.stepsB = 0]
  /\ sfx' = <<>>
  /\ UNCHANGED <<simA, simB, cores>>

\* playPause(), between two frames: a click that turns running on requests
\* loop once more; the model stops clicking play at MaxPending callbacks
R_App_playPause ==
  /\ arr0.todo = 0
  /\ arr0.running \/ arr0.pending < MaxPending
  /\ arr0' = [arr0 EXCEPT !.running = ~@,
                          !.pending = IF arr0.running THEN @ ELSE @ + 1]
  /\ sfx' = <<>>
  /\ UNCHANGED <<simA, simB, cores>>

\* a handler that ends in createControllers(), app being what it reads
R_App_recreate(app, cls) ==
  /\ arr0.todo = 0
  /\ \E p \in {R_App_createControllers(cores, cls, app.battle, app.arr)} :
       /\ arr0' = app
       /\ simA' = p.simA
       /\ simB' = p.simB
       /\ cores' = p.cores
       /\ sfx' = <<>>

\* reset(): a new seed, createControllers(), draw() when not running
R_App_reset ==
  \E arr \in PairArrays \ {arr0.arr} :
    R_App_recreate([arr0 EXCEPT !.arr = arr], simA.cls)

\* toggleBattle()
R_App_toggleBattle == R_App_recreate([arr0 EXCEPT !.battle = ~@], simA.cls)

\* change of the algorithm control
R_App_algorithmChange ==
  \E cls \in R_ArrayClasses \ {simA.cls} : R_App_recreate(arr0, cls)

\* init(): createControllers() on the first entry, then the first request
InitScriptApp ==
  \E arr \in PairArrays, battle \in BOOLEAN :
    \E p \in {R_App_createControllers(R_cores, R_SortList[1], battle, arr)} :
      /\ arr0 = [running |-> FALSE, battle |-> battle, arr |-> arr,
                 pending |-> 1, todo |-> 0, stepsA |-> 0, stepsB |-> 0]
      /\ simA = p.simA
      /\ simB = p.simB
      /\ cores = p.cores
      /\ sfx = <<>>

NextScriptApp ==
  \/ R_App_loop
  \/ R_App_frame
  \/ R_App_playPause
  \/ R_App_reset
  \/ R_App_toggleBattle
  \/ R_App_algorithmChange

SpecScriptApp == InitScriptApp /\ [][NextScriptApp]_vars

\* the loop callbacks alive: those left to run in the current frame and those
\* requested for the next one
Loops == arr0.todo + arr0.pending

\* C27: in the App runner of script.js, whatever the play/pause clicks, the
\* resets and the frames, one loop callback is pending per animation frame
\* and a frame calls step() at most once on ctrlA and at most once on ctrlB.
C27_OneLoopPerFrame ==
  /\ Loops = 1
  /\ arr0.stepsA <= 1
  /\ arr0.stepsB <= 1

\* a frame steps each controller at most once
C27_StepOncePerFrame == arr0.stepsA <= 1 /\ arr0.stepsB <= 1

\* one callback is alive until the first click on play
C27_OneLoopBeforePlay ==
  [][(Loops = 1 /\ Loops' # 1) => (~arr0.running /\ arr0'.running)]_vars

\* the callbacks alive never become fewer
C27_LoopsNeverDrop == [][Loops' >= Loops]_vars

----------------------------------------------------------------------------
(***************************************************************************)
(* main.js: step() on a stepper that was constructed and never             *)
(* initialised, and the three operations of the base class Algorithm.      *)
(* The fields init() would have assigned are absent; reading one gives     *)
(* undefined, arithmetic on it gives NaN, every relational test on either  *)
(* is false, and reading a property of undefined throws a TypeError.       *)
(* arr0 is the record of the last call: its name and what it threw.        *)
(***************************************************************************)
Field(s, f) == IF f \in DOMAIN s THEN s[f] ELSE undefined

NotNum(x) == x \in {undefined, NaN}

\* x >= y and x > y for a field x and a number y
JsFieldGe(x, y) == ~NotNum(x) /\ x >= y

JsFieldGt(x, y) == ~NotNum(x) /\ x > y

\* x + k for a field x
JsPlus(x, k) == IF NotNum(x) THEN NaN ELSE x + k

\* this.f = v
With(s, f, v) == (f :> v) @@ [g \in DOMAIN s \ {f} |-> s[g]]

Ret(s) == [sim |-> s, thrown |-> "none"]

Throw(s, e) == [sim |-> s, thrown |-> e]

\* new Algorithm(canvas, sfx, name)
M_Algorithm_new ==
  [cls |-> "M.Algorithm", isDone |-> FALSE, stats |-> <<>>, highlights |-> <<>>,
   out |-> <<>>]

\* BubbleSort.step() while i and j are not numbers
M_BubbleSort_stepNoInit(s) ==
  LET s1 == Inc(s, "steps", 1)
      n == Len(s.arr)
      i == Field(s, "i")
      j == Field(s, "j")
  IN IF JsFieldGe(i, n - 1) THEN Ret(M_finish(s1))
     ELSE LET s2 == Inc(Inc(Hl(Hl(s1, j, "#ff6b6b"), JsPlus(j, 1), "#ff6b6b"),
                            "comparisons", 1), "accesses", 2)
              s3 == IF JsGt(At(s.arr, j), At(s.arr, JsPlus(j, 1)))
                    THEN Snd(Inc(s2, "swaps", 1), "swap")
                    ELSE Snd(s2, "compare")
              s4 == With(s3, "j", JsPlus(j, 1))
          IN IF JsFieldGe(s4.j, n - 1)
             THEN Ret(With(With(s4, "j", 0), "i", JsPlus(i, 1)))
             ELSE Ret(s4)

\* QuickSort.step() and MergeSort.step() while stack is undefined
M_StackSort_stepNoInit(s) ==
  LET s1 == Inc(s, "steps", 1)
  IN IF "stack" \notin DOMAIN s THEN Throw(s1, "TypeError") ELSE Ret(s1)

\* HeapSort.step() and PostOrderTraversal.step() while phase is undefined:
\* neither branch is taken
M_Phase_stepNoInit(s) == Ret(Inc(s, "steps", 1))

\* InsertionSort.step() while i and j are not numbers
M_InsertionSort_stepNoInit(s) ==
  LET s1 == Inc(s, "steps", 1)
      i == Field(s, "i")
      j == Field(s, "j")
  IN IF JsFieldGe(i, Len(s.arr)) THEN Ret(M_finish(s1))
     ELSE LET s2 == Inc(Inc(Hl(Hl(s1, j, "#feca57"), JsPlus(j, 0 - 1), "#ff9ff3"),
                            "comparisons", 1), "accesses", 2)
          IN IF JsFieldGt(j, 0) /\ JsGt(At(s.arr, j - 1), At(s.arr, j))
             THEN Ret(With(Snd(Inc(s2, "swaps", 1), "swap"), "j", JsPlus(j, 0 - 1)))
             ELSE Ret(Snd(With(With(s2, "i", JsPlus(i, 1)), "j", JsPlus(i, 1)),
                          "compare"))

\* SelectionSort.step() while i, j and minIndex are not numbers
M_SelectionSort_stepNoInit(s) ==
  LET s1 == Inc(s, "steps", 1)
      n == Len(s.arr)
      i == Field(s, "i")
      j == Field(s, "j")
      minIndex == Field(s, "minIndex")
  IN IF JsFieldGe(i, n - 1) THEN Ret(M_finish(s1))
     ELSE LET s2 == Inc(Inc(Hl(Hl(s1, minIndex, "#ff6b6b"), j, "#feca57"),
                            "comparisons", 1), "accesses", 2)
              s3 == IF JsLt(At(s.arr, j), At(s.arr, minIndex))
                    THEN With(s2, "minIndex", j) ELSE s2
              s4 == With(Snd(s3, "compare"), "j", JsPlus(j, 1))
          IN IF JsFieldGe(s4.j, n) THEN Ret(Snd(Inc(s4, "swaps", 1), "swap"))
             ELSE Ret(s4)

\* LinearSearch.step() while currentIndex is not a number
M_LinearSearch_stepNoInit(s) ==
  LET s1 == Inc(s, "steps", 1)
      c == Field(s, "currentIndex")
  IN IF JsFieldGe(c, Len(s.arr)) THEN Ret(M_finish(s1))
     ELSE LET s2 == Inc(Inc(Hl(s1, c, "#feca57"), "accesses", 1), "comparisons", 1)
          IN IF At(s.arr, c) = s.target
             THEN Ret(M_finish(Snd([s2 EXCEPT !.found = TRUE, !.foundIndex = c],
                                   "finish")))
             ELSE Ret(With(Snd(s2, "compare"), "currentIndex", JsPlus(c, 1)))

\* BinarySearch.step() while left and right are not numbers: mid is NaN
M_BinarySearch_stepNoInit(s) ==
  LET s1 == Inc(s, "steps", 1)
      left == Field(s, "left")
      right == Field(s, "right")
  IN IF ~NotNum(left) /\ JsFieldGt(left, right) THEN Ret(M_finish(s1))
     ELSE LET s2 == Inc(Inc(Hl(Hl(Hl(With(s1, "mid", NaN), left, "#ff9ff3"),
                                  right, "#48dbfb"), NaN, "#feca57"),
                            "accesses", 1), "comparisons", 1)
          IN IF At(s.arr, NaN) = s.target
             THEN Ret(M_finish(Snd([s2 EXCEPT !.found = TRUE], "finish")))
             ELSE IF JsLt(At(s.arr, NaN), s.target)
             THEN Ret(Snd(With(s2, "left", NaN), "compare"))
             ELSE Ret(Snd(With(s2, "right", NaN), "compare"))

\* Dijkstra, BFS, DFS: this.frontier.length; AStar: this.openSet.length
M_Graph_stepNoInit(s) ==
  IF "frontier" \notin DOMAIN s /\ "openSet" \notin DOMAIN s
  THEN Throw(s, "TypeError") ELSE Ret(s)

\* InOrderTraversal: currentNode is null, so this.stack.length is read;
\* PreOrderTraversal reads it at once
M_Tree_stepNoInit(s) ==
  LET s1 == Inc(s, "steps", 1)
  IN IF s.cls = "M.InOrderTraversal" /\ s.currentNode # 0 THEN Ret(s1)
     ELSE IF "stack" \notin DOMAIN s THEN Throw(s1, "TypeError")
     ELSE Ret(s1)

\* step() on a stepper no init() has been called on
M_stepNoInit(s) ==
  IF s.isDone THEN Ret(s)
  ELSE CASE s.cls = "M.BubbleSort" -> M_BubbleSort_stepNoInit(s)
         [] s.cls \in {"M.QuickSort", "M.MergeSort"} -> M_StackSort_stepNoInit(s)
         [] s.cls \in {"M.HeapSort", "M.PostOrderTraversal"} -> M_Phase_stepNoInit(s)
         [] s.cls = "M.InsertionSort" -> M_InsertionSort_stepNoInit(s)
         [] s.cls = "M.SelectionSort" -> M_SelectionSort_stepNoInit(s)
         [] s.cls = "M.LinearSearch" -> M_LinearSearch_stepNoInit(s)
         [] s.cls = "M.BinarySearch" -> M_BinarySearch_stepNoInit(s)
         [] s.cls \in M_GraphClasses -> M_Graph_stepNoInit(s)
         [] s.cls \in {"M.InOrderTraversal", "M.PreOrderTraversal"} ->
              M_Tree_stepNoInit(s)

InitMainNoInit ==
  /\ simA \in {M_constructed(cls) : cls \in M_Classes} \cup {M_Algorithm_new}
  /\ simB = NoSim
  /\ sfx = <<>>
  /\ cores = NoCores
  /\ arr0 = [call |-> "none", thrown |-> "none"]

\* step() on the concrete stepper; the model stops calling after MaxCalls
M_StepNoInitA ==
  /\ simA.cls \in M_Classes
  /\ simA.stats.steps < MaxCalls
  /\ LET r == M_stepNoInit(simA)
     IN /\ simA' = Quiet(r.sim)
        /\ sfx' = r.sim.out
        /\ arr0' = [call |-> "step", thrown |-> r.thrown]
  /\ UNCHANGED <<simB, cores>>

\* init(seed, size) { throw new Error("Must implement init()"); }, and the
\* same for step() and draw()
M_Algorithm_call ==
  /\ simA.cls = "M.Algorithm"
  /\ \E call \in {"init", "step", "draw"} :
       arr0' = [call |-> call, thrown |-> "Error"]
  /\ sfx' = <<>>
  /\ UNCHANGED <<simA, simB, cores>>

NextMainNoInit == M_StepNoInitA \/ M_Algorithm_call

SpecMainNoInit == InitMainNoInit /\ [][NextMainNoInit]_vars

\* C29: step() on a concrete stepper of main.js that was constructed and
\* never initialised raises a fault instead of returning normally, and init,
\* step and draw on the base class Algorithm raise an error.
C29_NoInitFaults == arr0.call # "none" => arr0.thrown # "none"

\* the operations of the base class throw
C29_AbstractThrows ==
  (simA.cls = "M.Algorithm" /\ arr0.call # "none") => arr0.thrown = "Error"

\* the classes whose step() returns normally before init(), and those whose
\* step() throws
C29_WhoThrows ==
  (simA.cls \in M_Classes /\ arr0.call = "step") =>
    (arr0.thrown = "none" <=>
       simA.cls \in {"M.BubbleSort", "M.HeapSort", "M.InsertionSort",
                     "M.SelectionSort", "M.LinearSearch", "M.BinarySearch",
                     "M.PostOrderTraversal"})

\* step() before init() never finishes the steppers it returns from
C29_NeverFinished == simA.cls \in M_Classes => ~simA.isDone

----------------------------------------------------------------------------
(***************************************************************************)
(* Interpolation search: the stepper of part_000 on the arrays its init    *)
(* builds (1..n, target one of them) and the registry stepper of script.js *)
(* on the sorted arrays Data.sortedArray can give.                         *)
(***************************************************************************)
InitInterpolation ==
  /\ \/ \E n \in 0..MaxLen, k \in 0..MaxLen :
          /\ k < n \/ k = 0
          /\ simA = P_InterpolationSearch_init(SortedRange(n), At(SortedRange(n), k))
          /\ cores = NoCores
          /\ arr0 = SortedRange(n)
     \/ \E a \in Arrays, k \in 0..MaxLen :
          /\ k < Len(a) \/ k = 0
          /\ LET new == R_newSearch("R.Interpolation Search", R_sortedArray(a), k)
             IN simA = new.sim /\ cores = new.cores /\ arr0 = new.sim.arr
  /\ simB = NoSim
  /\ sfx = <<>>

P_InterpolationStepA == simA.cls = "P.InterpolationSearch" /\ StepA

R_InterpolationStepA == simA.cls = "R.Interpolation Search" /\ R_StepA

NextInterpolation == P_InterpolationStepA \/ R_InterpolationStepA

SpecInterpolation == InitInterpolation /\ [][NextInterpolation]_vars

\* the next step() of the part_000 stepper s computes the position
P_Interpolates(s) ==
  /\ ~s.isComplete
  /\ ~(s.low > s.high \/ JsLt(s.target, At(s.array, s.low))
         \/ JsGt(s.target, At(s.array, s.high)))
  /\ s.low # s.high

\* the next step() of the registry stepper s computes the position
R_Interpolates(c, s) ==
  ~s.done /\ ~(c.l > c.r \/ At(s.arr, c.l) = At(s.arr, c.r))

\* the position the registry core probes: clamp(pos, l, r)
R_InterpolationSearch_m(c, s) ==
  R_clamp(c.l + ((s.target - At(s.arr, c.l)) * (c.r - c.l))
                  \div (At(s.arr, c.r) - At(s.arr, c.l)),
          c.l, c.r)

C30_WitnessPart ==
  /\ simA.cls = "P.InterpolationSearch"
  /\ simA.found
  /\ simA.stats.comparisons = 1
  /\ simA.foundIndex > 0
  /\ simA.foundIndex < Len(simA.array) - 1

\* ---------------------------------------------------------------------
\* script.js, the class-based program (lines 470-1000): steppers

\* new BubbleSort / new QuickSort: the Algorithm and SortingAlgorithm
\* constructors
S_SortingAlgorithm(cls) ==
  [cls |-> cls, isDone |-> FALSE, arr |-> <<>>, highlights |-> <<>>,
   stats |-> [comparisons |-> 0, swaps |-> 0, steps |-> 0], out |-> <<>>]

\* new Dijkstra: the Algorithm and GridAlgorithm constructors
S_GridAlgorithm(cls) ==
  [cls |-> cls, isDone |-> FALSE, stats |-> <<>>, gridSize |-> 25, grid |-> <<>>,
   visited |-> {}, path |-> {}, out |-> <<>>]

S_Classes == {"S.BubbleSort", "S.QuickSort", "S.Dijkstra"}

S_new(cls) ==
  IF cls = "S.Dijkstra" THEN S_GridAlgorithm(cls) ELSE S_SortingAlgorithm(cls)

\* const rng = new SeededRNG(seed).random; Array.from({ length }, () => rng()):
\* random is taken off its object, so the first rng() reads mulberry32 of
\* undefined and throws; the callback runs only when length > 0
S_rngThrows(length) == length > 0

\* SortingAlgorithm.init(seed, size)
S_SortingAlgorithm_init(s, seed, size) ==
  IF S_rngThrows(size) THEN Throw(s, "TypeError")
  ELSE Ret([s EXCEPT !.arr = <<>>, !.isDone = FALSE, !.highlights = <<>>,
                     !.stats = [comparisons |-> 0, swaps |-> 0, steps |-> 0]])

\* BubbleSort.init(seed, size)
S_BubbleSort_init(s, seed, size) ==
  LET r == S_SortingAlgorithm_init(s, seed, size)
  IN IF r.thrown # "none" THEN r ELSE Ret(With(With(r.sim, "i", 0), "j", 0))

\* QuickSort.init(seed, size)
S_QuickSort_init(s, seed, size) ==
  LET r == S_SortingAlgorithm_init(s, seed, size)
  IN IF r.thrown # "none" THEN r
     ELSE Ret(With(r.sim, "stack", <<<<0, Len(r.sim.arr) - 1>>>>))

\* GridAlgorithm.init(seed): the grid rows are built before anything is
\* assigned
S_GridAlgorithm_init(s, seed) ==
  IF S_rngThrows(s.gridSize) THEN Throw(s, "TypeError")
  ELSE Ret(With(With([s EXCEPT !.grid = <<>>, !.isDone = FALSE, !.visited = {},
                               !.path = {}],
                          "startNode", <<0, 0>>),
                     "goalNode", <<s.gridSize - 1, s.gridSize - 1>>))

\* Dijkstra.init(seed)
S_Dijkstra_init(s, seed) ==
  LET r == S_GridAlgorithm_init(s, seed)
  IN IF r.thrown # "none" THEN r
     ELSE Ret(With(With(With(r.sim, "frontier",
                             <<[x |-> 0, y |-> 0, dist |-> 0]>>),
                        "cameFrom", <<>>),
                   "distances", (<<0, 0>> :> 0)))

S_init(s, seed, size) ==
  CASE s.cls = "S.BubbleSort" -> S_BubbleSort_init(s, seed, size)
    [] s.cls = "S.QuickSort" -> S_QuickSort_init(s, seed, size)
    [] s.cls = "S.Dijkstra" -> S_Dijkstra_init(s, seed)

\* this._finish(): SortingAlgorithm defines it, Algorithm and GridAlgorithm
\* do not, so on a Dijkstra the call is a call of undefined
S_finish(s) ==
  IF s.cls \in {"S.BubbleSort", "S.QuickSort"}
  THEN Ret(Snd([s EXCEPT !.isDone = TRUE], "finish"))
  ELSE Throw(s, "TypeError")

\* BubbleSort.step()
S_BubbleSort_step(s) ==
  IF s.isDone THEN Ret(s)
  ELSE LET n == Len(s.arr)
           i == Field(s, "i")
           j == Field(s, "j")
       IN IF JsFieldGe(i, n - 1) THEN S_finish(s)
          ELSE LET s1 == Inc(Hl(Hl(s, j, "#f1c40f"), JsPlus(j, 1), "#f1c40f"),
                             "comparisons", 1)
                   s2 == IF JsGt(At(s.arr, j), At(s.arr, JsPlus(j, 1)))
                         THEN Snd(Inc([s1 EXCEPT !.arr = Swap(@, j, j + 1)],
                                      "swaps", 1), "swap")
                         ELSE Snd(s1, "visit")
                   s3 == With(s2, "j", JsPlus(j, 1))
               IN IF ~NotNum(s3.j) /\ ~NotNum(i) /\ s3.j >= n - 1 - i
                  THEN Ret(With(With(Hl(s3, n - 1 - i, "#2ecc71"), "j", 0),
                                "i", i + 1))
                  ELSE Ret(s3)

RECURSIVE S_partitionLoop(_, _, _, _, _)
\* for (let j = low; j < high; j++) { comparisons++; if (arr[j] < pivot) ... }
S_partitionLoop(s, pivot, i, j, high) ==
  IF j >= high THEN [sim |-> s, i |-> i]
  ELSE LET s1 == Inc(s, "comparisons", 1)
       IN IF JsLt(At(s.arr, j), pivot)
          THEN S_partitionLoop(Inc([s1 EXCEPT !.arr = Swap(@, i + 1, j)], "swaps", 1),
                               pivot, i + 1, j + 1, high)
          ELSE S_partitionLoop(s1, pivot, i, j + 1, high)

\* QuickSort._partition(low, high)
S_QuickSort_partition(s, low, high) ==
  LET p == S_partitionLoop(s, At(s.arr, high), low - 1, low, high)
  IN [sim |-> Inc([p.sim EXCEPT !.arr = Swap(@, p.i + 1, high)], "swaps", 1),
      pivotIndex |-> p.i + 1]

\* QuickSort.step()
S_QuickSort_step(s) ==
  IF s.isDone THEN Ret(s)
  ELSE IF "stack" \notin DOMAIN s THEN Throw(s, "TypeError")
  ELSE IF s.stack = <<>> THEN S_finish(s)
  ELSE LET r == Top(s.stack)
           s1 == [s EXCEPT !.stack = Pop(@)]
       IN IF r[1] < r[2]
          THEN LET p == S_QuickSort_partition(s1, r[1], r[2])
               IN Ret(Snd([p.sim EXCEPT !.stack =
                             @ \o <<<<r[1], p.pivotIndex - 1>>,
                                    <<p.pivotIndex + 1, r[2]>>>>], "swap"))
          ELSE Ret(Snd(s1, "visit"))

RECURSIVE S_Dijkstra_neighbors(_, _, _)
\* for (const [dx, dy] of [[0, 1], [1, 0], [0, -1], [-1, 0]]) { ... }
S_Dijkstra_neighbors(s, current, k) ==
  IF k > 4 THEN s
  ELSE LET d == <<<<0, 1>>, <<1, 0>>, <<0, 0 - 1>>, <<0 - 1, 0>>>>[k]
           nx == current.x + d[1]
           ny == current.y + d[2]
           key == <<nx, ny>>
       IN IF nx >= 0 /\ nx < s.gridSize /\ ny >= 0 /\ ny < s.gridSize
          THEN LET newDist == current.dist + s.grid[key]
               IN IF key \notin DOMAIN s.distances \/ newDist < s.distances[key]
                  THEN S_Dijkstra_neighbors(
                         [s EXCEPT !.distances = (key :> newDist) @@ @,
                                   !.cameFrom = (key :> current) @@ @,
                                   !.frontier = Append(@, [x |-> nx, y |-> ny,
                                                           dist |-> newDist])],
                         current, k + 1)
                  ELSE S_Dijkstra_neighbors(s, current, k + 1)
          ELSE S_Dijkstra_neighbors(s, current, k + 1)

RECURSIVE S_pathLoop(_, _)
\* while (currentKey && this.cameFrom.has(currentKey)) { path.add; ... }
S_pathLoop(s, currentKey) ==
  IF currentKey \notin DOMAIN s.cameFrom THEN s
  ELSE LET prev == s.cameFrom[currentKey]
       IN S_pathLoop([s EXCEPT !.path = @ \cup {currentKey}], <<prev.x, prev.y>>)

\* Dijkstra._reconstructPath()
S_Dijkstra_reconstructPath(s) == S_pathLoop(s, s.goalNode)

\* Dijkstra.step()
S_Dijkstra_step(s) ==
  IF s.isDone THEN Ret(s)
  ELSE IF "frontier" \notin DOMAIN s THEN Throw(s, "TypeError")
  ELSE IF s.frontier = <<>> THEN S_finish(s)
  ELSE LET q == SortDescBy(s.frontier, "dist")
           current == Top(q)
           currentKey == <<current.x, current.y>>
           s1 == [s EXCEPT !.frontier = Pop(q)]
       IN IF currentKey \in s.visited THEN Ret(Snd(s1, "visit"))
          ELSE LET s2 == Snd([s1 EXCEPT !.visited = @ \cup {currentKey}], "swap")
               IN IF currentKey = s.goalNode
                  THEN S_finish(S_Dijkstra_reconstructPath(s2))
                  ELSE Ret(S_Dijkstra_neighbors(s2, current, 1))

S_step(s) ==
  CASE s.cls = "S.BubbleSort" -> S_BubbleSort_step(s)
    [] s.cls = "S.QuickSort" -> S_QuickSort_step(s)
    [] s.cls = "S.Dijkstra" -> S_Dijkstra_step(s)

\* SortingAlgorithm.draw() resets the highlights; GridAlgorithm.draw() reads
\* this.grid[y][x] for y, x < gridSize, which throws while the row is missing
S_draw(s) ==
  IF s.cls = "S.Dijkstra"
  THEN IF s.gridSize > 0 /\ s.grid = <<>> THEN Throw(s, "TypeError") ELSE Ret(s)
  ELSE Ret([s EXCEPT !.highlights = <<>>])

\* here arr0 records the last call on the stepper, whether it threw, and the
\* number of step() calls made on the object
InitScriptClasses ==
  /\ simA \in {S_new(cls) : cls \in S_Classes}
  /\ simB = NoSim
  /\ sfx = <<>>
  /\ cores = NoCores
  /\ arr0 = [call |-> "new", thrown |-> "none", steps |-> 0]

\* init(seed, size)
S_InitA ==
  /\ \E seed \in Seeds, size \in Sizes :
       \E r \in {S_init(simA, seed, size)} :
         /\ simA' = Quiet(r.sim)
         /\ arr0' = [arr0 EXCEPT !.call = "init", !.thrown = r.thrown]
  /\ sfx' = <<>>
  /\ UNCHANGED <<simB, cores>>

\* step(); the model stops calling after MaxCalls
S_StepA ==
  /\ arr0.steps < MaxCalls
  /\ \E r \in {S_step(simA)} :
       /\ simA' = Quiet(r.sim)
       /\ sfx' = r.sim.out
       /\ arr0' = [call |-> "step", thrown |-> r.thrown, steps |-> arr0.steps + 1]
  /\ UNCHANGED <<simB, cores>>

\* draw()
S_DrawA ==
  /\ \E r \in {S_draw(simA)} :
       /\ simA' = r.sim
       /\ arr0' = [arr0 EXCEPT !.call = "draw", !.thrown = r.thrown]
  /\ sfx' = <<>>
  /\ UNCHANGED <<simB, cores>>

NextScriptClasses == S_InitA \/ S_StepA \/ S_DrawA

SpecScriptClasses == InitScriptClasses /\ [][NextScriptClasses]_vars

\* C31: a step() of the class-based Dijkstra that has no frontier cell left
\* to extract, or that extracts the goal, returns without a fault and leaves
\* the stepper finished.
C31_DijkstraEnds ==
  [][(simA.cls = "S.Dijkstra" /\ arr0'.call = "step" /\ ~simA.isDone
        /\ ("frontier" \notin DOMAIN simA \/ simA.frontier = <<>>
              \/ ("goalNode" \in DOMAIN simA' /\ simA'.goalNode \in simA'.visited)))
       => (arr0'.thrown = "none" /\ simA'.isDone)]_vars

\* C31: what the code does instead: no init ever gets as far as assigning
\* the frontier, and every step() of a Dijkstra ends in a TypeError with
\* finished still false
C31_DijkstraAlwaysThrows ==
  (simA.cls = "S.Dijkstra" /\ arr0.call \in {"init", "step"})
    => (arr0.thrown = "TypeError" /\ ~simA.isDone /\ "frontier" \notin DOMAIN simA)

\* C31: a step() was made on a Dijkstra after init
C31_Stepped ==
  simA.cls = "S.Dijkstra" /\ arr0.call = "step" /\ arr0.steps >= 1

\* ---------------------------------------------------------------------
\* part_000: StackVisualization and QueueVisualization on seeded operations

MaxVisSize == 22

VisSizes == 0..MaxVisSize

\* new StackVisualization / QueueVisualization, then init(seed, size)
P_VisSeeded(cls, seed, size) == P_VisInit(cls, P_OpsData(seed, size))

\* here arr0 counts the step() calls made since init
InitPartVis ==
  /\ \E cls \in P_VisClasses, seed \in Seeds, size \in VisSizes :
       simA = P_VisSeeded(cls, seed, size)
  /\ arr0 = 0
  /\ simB = NoSim
  /\ sfx = <<>>
  /\ cores = NoCores

\* step(); the model stops calling two calls after the last operation
P_VisStepA ==
  /\ arr0 < MaxVisSize + 2
  /\ \E t \in {Step(simA)} : simA' = Quiet(t) /\ sfx' = t.out
  /\ arr0' = arr0 + 1
  /\ UNCHANGED <<simB, cores>>

\* draw()
P_VisDrawA ==
  /\ simA' = P_Visualization_draw(simA)
  /\ sfx' = <<>>
  /\ UNCHANGED <<simB, cores, arr0>>

NextPartVis == P_VisStepA \/ P_VisDrawA

SpecPartVis == InitPartVis /\ [][NextPartVis]_vars

\* C32: for every size >= 0, StackVisualization and QueueVisualization are
\* finished after at most size + 1 step() calls.
C32_VisBound == arr0 >= Len(simA.operations) + 1 => simA.isComplete

\* C32: for size >= 1 the stepper is finished after exactly size calls
C32_VisBoundFromOne ==
  Len(simA.operations) >= 1 =>
    (simA.isComplete <=> arr0 >= Len(simA.operations))

\* C32: with size 0 no step() call ever finishes the stepper
C32_EmptyNeverFinishes == Len(simA.operations) = 0 => ~simA.isComplete

P_ComparisonSorts ==
  {"P.BubbleSort", "P.CocktailSort", "P.SelectionSort", "P.InsertionSort", "P.ShellSort"}

\* a step() call on an unfinished stepper of one of the classes that leaves it
\* unfinished counted exactly one comparison and at most one swap
OneComparisonStep(classes) ==
  (simA.cls \in classes /\ ~simA.isComplete /\ ~simA'.isComplete)
    => /\ simA'.stats.comparisons = simA.stats.comparisons + 1
       /\ simA'.stats.swaps \in {simA.stats.swaps, simA.stats.swaps + 1}

\* C33: in part_000 every step() call on an unfinished BubbleSort,
\* CocktailSort, SelectionSort, InsertionSort or ShellSort that does not set
\* finished grows stats.comparisons by exactly 1 and stats.swaps by at most 1.
C33_OneComparisonPerStep == [][OneComparisonStep(P_ComparisonSorts)]_vars

\* C33: InsertionSort alone keeps to one comparison and at most one swap
C33_InsertionOne == [][OneComparisonStep({"P.InsertionSort"})]_vars

\* C33: a ShellSort step() never counts more comparisons than swaps, so a
\* step that compares twice also swaps twice
C33_ShellWholeInsertion ==
  [][simA.cls = "P.ShellSort" =>
       simA'.stats.comparisons - simA.stats.comparisons
         = simA'.stats.swaps - simA.stats.swaps]_vars

\* the array indices covered by a range on the work stack
StackCovered(s) ==
  {k \in 0..(Len(s.arr) - 1) :
     \E r \in 1..Len(s.stack) : s.stack[r][1] <= k /\ k <= s.stack[r][2]}

\* every non-empty stacked range lies inside [0, n-1], no two of them share an
\* index, and every index outside them holds its final value
QuickSortRanges(s) ==
  /\ \A r \in 1..Len(s.stack) :
       s.stack[r][1] <= s.stack[r][2] =>
         (0 <= s.stack[r][1] /\ s.stack[r][2] <= Len(s.arr) - 1)
  /\ \A r, q \in 1..Len(s.stack) :
       r < q => \A k \in s.stack[r][1]..s.stack[r][2] :
                  ~(s.stack[q][1] <= k /\ k <= s.stack[q][2])
  /\ \A k \in (0..(Len(s.arr) - 1)) \ StackCovered(s) :
       At(s.arr, k) = At(R_sortedArray(arr0), k)

\* s1 is s after one step(): the top range was popped and, when it held more
\* than one index, partitioned around its last element, with the two ranges
\* beside the pivot pushed in its place
QuickSortStep(s, s1) ==
  LET low == Top(s.stack)[1]
      high == Top(s.stack)[2]
  IN IF low < high
     THEN \E pi \in low..high :
            /\ s1.stack = Pop(s.stack) \o <<<<low, pi - 1>>, <<pi + 1, high>>>>
            /\ At(s1.arr, pi) = At(s.arr, high)
            /\ \A k \in low..(pi - 1) : At(s1.arr, k) < At(s.arr, high)
            /\ \A k \in (pi + 1)..high : At(s1.arr, k) >= At(s.arr, high)
            /\ \A k \in (0..(Len(s.arr) - 1)) \ (low..high) : At(s1.arr, k) = At(s.arr, k)
            /\ IsPerm(s1.arr, s.arr)
     ELSE s1.stack = Pop(s.stack) /\ s1.arr = s.arr

\* C34: in main.js QuickSort, after init and after every step() the stacked
\* ranges lie inside [0, n-1] up to empty ranges and are pairwise disjoint,
\* and every index covered by no stacked range holds the value it has in the
\* sorted array; each step() pops one range and, when low < high, partitions
\* it around its last element and pushes the two ranges beside the pivot.
C34_QuickSortRanges ==
  /\ [](simA.cls = "M.QuickSort" => QuickSortRanges(simA))
  /\ [][(simA.cls = "M.QuickSort" /\ ~simA.isDone /\ simA.stack # <<>>)
          => QuickSortStep(simA, simA')]_vars

\* C34: a partition left two ranges of more than one index on the stack, with
\* the pivot between them covered by neither
C34_Witness ==
  /\ simA.cls = "M.QuickSort"
  /\ simA.stats.steps >= 1
  /\ Len(simA.stack) = 2
  /\ \A r \in 1..2 : simA.stack[r][1] < simA.stack[r][2]
  /\ simA.pivotIndex \notin StackCovered(simA)

\* C35: in main.js, for BubbleSort, SelectionSort, InsertionSort, QuickSort,
\* MergeSort and HeapSort, after every single step() call arr is a permutation
\* of the array init produced and has the same length.
C35_PermutationEveryStep ==
  simA.cls \in {"M.BubbleSort", "M.SelectionSort", "M.InsertionSort",
                "M.QuickSort", "M.MergeSort", "M.HeapSort"}
    => (Len(simA.arr) = Len(arr0) /\ IsPerm(simA.arr, arr0))

\* C35: a MergeSort in mid-run, after a merge wrote into arr, with arr neither
\* the initial array nor sorted yet
C35_Witness ==
  /\ simA.cls = "M.MergeSort"
  /\ ~simA.isDone
  /\ simA.stats.steps >= 1
  /\ simA.arr # arr0
  /\ ~IsSorted(simA.arr)

RECURSIVE ReachesStart(_, _, _)
\* following cameFrom from cell c arrives at the start within fuel hops
ReachesStart(s, c, fuel) ==
  IF c = M_start THEN TRUE
  ELSE IF c \notin DOMAIN s.cameFrom \/ fuel = 0 THEN FALSE
  ELSE ReachesStart(s, s.cameFrom[c], fuel - 1)

\* C36: in main.js, for BFS, DFS, Dijkstra and AStar, in every reachable state
\* the start cell has no cameFrom entry and following cameFrom from any cell
\* that has one reaches the start within as many hops as there are cells, so
\* _reconstructPath never runs for ever.
C36_CameFromAcyclic ==
  /\ simA.cls # "hung"
  /\ simA.cls \in M_GraphClasses =>
       /\ M_start \notin DOMAIN simA.cameFrom
       /\ \A c \in DOMAIN simA.cameFrom : ReachesStart(simA, c, GridSize * GridSize)

\* C36: a DFS finished on a path longer than the shortest one, every cell of
\* it found through cameFrom
C36_Witness ==
  /\ simA.cls = "M.DFS"
  /\ simA.isDone
  /\ M_goal \in DOMAIN simA.cameFrom
  /\ simA.stats.pathLength > 2 * (GridSize - 1)

\* ---------------------------------------------------------------------
\* part_000: class AlgorithmVisualizer, the driver of the steppers

\* the classes of ALGORITHMS, by category, in the order of their keys
P_ALGORITHMS ==
  ("sorting" :> <<"P.BubbleSort", "P.CocktailSort", "P.SelectionSort",
                  "P.InsertionSort", "P.ShellSort", "P.QuickSort", "P.MergeSort",
                  "P.HeapSort", "P.CountingSort", "P.RadixSort">>)
    @@ ("searching" :> <<"P.LinearSearch", "P.BinarySearch", "P.JumpSearch",
                         "P.InterpolationSearch", "P.ExponentialSearch">>)
    @@ ("data-structures" :> <<"P.StackVisualization", "P.QueueVisualization">>)
    @@ ("pathfinding" :> <<"P.BFS", "P.DFS", "P.AStar", "P.Dijkstra">>)

P_Categories == DOMAIN P_ALGORITHMS

P_IdsOf(cat) == {P_ALGORITHMS[cat][k] : k \in 1..Len(P_ALGORITHMS[cat])}

\* the positions of the size slider explored
P_AppSizes == 1..MaxAppSize

RECURSIVE P_shuffleFrom(_, _, _)
\* for (let i = arr.length - 1; i > 0; i--) { j = this.int(0, i); swap }
P_shuffleFrom(a, st, i) ==
  IF i <= 0 THEN <<a, st>>
  ELSE LET s1 == P_next(st)
       IN P_shuffleFrom(Swap(a, i, P_int(s1, 0, i)), s1, i - 1)

\* SeededRNG.shuffle
P_shuffle(a, st) == P_shuffleFrom(a, st, Len(a) - 1)

\* SearchAlgorithm.init: [1..size], shuffled unless the search needs it
\* sorted, and the target array[rng.int(0, length - 1)]
P_SearchData(cls, seed, size) ==
  LET r == IF cls \in {"P.BinarySearch", "P.InterpolationSearch"}
           THEN <<SortedRange(size), M_SeededRNG(seed)>>
           ELSE P_shuffle(SortedRange(size), M_SeededRNG(seed))
  IN <<r[1], At(r[1], P_int(P_next(r[2]), 0, size - 1))>>

\* the walls PathfindingAlgorithm.init leaves for each seed explored
P_AppGrids == [seed \in AppSeeds |-> P_GridData(seed)]

\* new AlgorithmClass(canvas, audioEngine, name), then init(seed, size)
P_App_build(n) ==
  IF n = NoSim THEN NoSim
  ELSE CASE n.cls \in P_SortClasses -> P_SortInit(n.cls, P_SortingData(n.seed, n.size))
         [] n.cls \in P_SearchClasses ->
              LET d == P_SearchData(n.cls, n.seed, n.size)
              IN P_SearchInit(n.cls, d[1], d[2])
         [] n.cls \in P_VisClasses -> P_VisSeeded(n.cls, n.seed, n.size)
         [] n.cls \in P_PathClasses -> P_PathInit(n.cls, P_AppGrids[n.seed])

\* algorithmKeys.find(key => key !== algorithmKey) || algorithmKeys[0]
P_App_otherKey(cat, algorithmKey) ==
  LET ids == P_ALGORITHMS[cat]
      diff == {k \in 1..Len(ids) : ids[k] # algorithmKey}
  IN IF diff # {} THEN ids[CHOOSE k \in diff : \A m \in diff : k <= m]
     ELSE ids[1]

\* resetAlgorithms() once the seed is settled: the class each stepper is
\* built from and the arguments of its init()
P_App_resetAlgorithms(app) ==
  [simA |-> [cls |-> app.algorithm, seed |-> app.seed, size |-> app.size],
   simB |-> IF app.battle
            THEN [cls |-> P_App_otherKey(app.category, app.algorithm),
                  seed |-> app.seed, size |-> app.size]
            ELSE NoSim]

\* drawAlgorithms()
P_App_drawAlgorithms(a, b) == M_App_drawAll(a, b)

\* an animate() that stops only when it is paused
P_App_stop_never(due, hasActiveAlgorithm) == FALSE

\* animate(): the else branch, this.isPlaying = false, is taken
P_App_stop(due, hasActiveAlgorithm) == due /\ ~hasActiveAlgorithm

\* animate(currentTime), one animation frame: when playing and the interval
\* has elapsed the unfinished steppers are stepped, A first; if one was, both
\* are drawn, else isPlaying is cleared
P_App_animate ==
  \E elapsedEnough \in BOOLEAN :
    \E sa \in {Step(simA)}, sb \in {IF simB = NoSim THEN NoSim ELSE Step(simB)} :
      \E p \in {IF cores.isPlaying /\ elapsedEnough
                THEN M_App_stepBoth(simA, simB, sa, sb)
                ELSE [simA |-> simA, simB |-> simB, calls |-> <<>>, out |-> <<>>,
                      stepped |-> FALSE]} :
        \E d \in {IF p.stepped THEN P_App_drawAlgorithms(p.simA, p.simB)
                  ELSE [simA |-> p.simA, simB |-> p.simB, calls |-> <<>>]} :
          /\ simA' = d.simA
          /\ simB' = d.simB
          /\ sfx' = p.out
          /\ cores' = [cores EXCEPT
                         !.isPlaying = IF P_App_stop(cores.isPlaying /\ elapsedEnough,
                                                     p.stepped)
                                       THEN FALSE ELSE @]
          /\ arr0' = [handler |-> "loop", due |-> elapsedEnough,
                      calls |-> p.calls \o d.calls]

\* togglePlayPause(): the play button or the space key
P_App_togglePlayPause ==
  /\ cores' = [cores EXCEPT !.isPlaying = ~@]
  /\ arr0' = [handler |-> "togglePlayPause", due |-> FALSE, calls |-> <<>>]
  /\ sfx' = <<>>
  /\ UNCHANGED <<simA, simB>>

\* a handler that ends in resetAlgorithms(), app being the fields it reads
P_ResetTo(app, handler) ==
  \E n \in {P_App_resetAlgorithms(app)} :
    \E a \in {P_App_build(n.simA)}, b \in {P_App_build(n.simB)} :
      \E d \in {P_App_drawAlgorithms(a, b)} :
        /\ cores' = [app EXCEPT !.isPlaying = FALSE]
        /\ simA' = d.simA
        /\ simB' = d.simB
        /\ sfx' = <<>>
        /\ arr0' = [handler |-> handler, due |-> FALSE, calls |-> d.calls]

\* change of the category control: populateAlgorithms() selects the first
\* algorithm of the category, then resetAlgorithms()
P_App_categoryChange ==
  \E cat \in P_Categories \ {cores.category} :
    P_ResetTo([cores EXCEPT !.category = cat, !.algorithm = P_ALGORITHMS[cat][1]],
              "category")

\* change of the algorithm control, then resetAlgorithms()
P_App_algorithmChange ==
  \E id \in P_IdsOf(cores.category) \ {cores.algorithm} :
    P_ResetTo([cores EXCEPT !.algorithm = id], "algorithm")

\* input on the size slider, then resetAlgorithms()
P_App_sizeInput ==
  \E size \in P_AppSizes \ {cores.size} :
    P_ResetTo([cores EXCEPT !.size = size], "size")

\* the reset button or the R key: resetAlgorithms(true) takes a new seed
P_App_resetClick ==
  \E now \in AppSeeds : P_ResetTo([cores EXCEPT !.seed = now], "reset")

\* toggleBattleMode(): the battle button or the B key
P_App_toggleBattleMode ==
  P_ResetTo([cores EXCEPT !.battle = ~@], "battle")

\* change of the showComplexity setting: resetAlgorithms() on the same choice
P_App_showComplexityChange == P_ResetTo(cores, "showComplexity")

\* new AlgorithmVisualizer(): the first category and its first algorithm are
\* selected, resetAlgorithms() builds algorithmA
InitPartApp ==
  \E seed \in AppSeeds, size \in P_AppSizes :
    \E app \in {[isPlaying |-> FALSE, battle |-> FALSE, category |-> "sorting",
                 algorithm |-> P_ALGORITHMS["sorting"][1], size |-> size,
                 seed |-> seed]} :
      \E a \in {P_App_build(P_App_resetAlgorithms(app).simA)} :
        \E d \in {P_App_drawAlgorithms(a, NoSim)} :
          /\ cores = app
          /\ simA = d.simA
          /\ simB = d.simB
          /\ sfx = <<>>
          /\ arr0 = [handler |-> "constructor", due |-> FALSE, calls |-> d.calls]

NextPartApp ==
  \/ P_App_animate
  \/ P_App_togglePlayPause
  \/ P_App_categoryChange
  \/ P_App_algorithmChange
  \/ P_App_sizeInput
  \/ P_App_resetClick
  \/ P_App_toggleBattleMode
  \/ P_App_showComplexityChange

\* ---------------------------------------------------------------------
\* the two frame loops side by side: the page runs main.js or part_000

M_Page == "isRunning" \in DOMAIN cores

P_Page == "isPlaying" \in DOMAIN cores

InitFrameLoops == InitMainApp \/ InitPartApp

NextFrameLoops == (M_Page /\ NextMainApp) \/ (P_Page /\ NextPartApp)

\* the running flag of the page's driver
Running == IF M_Page THEN cores.isRunning ELSE cores.isPlaying

\* a frame whose step interval has elapsed
DueFrame ==
  /\ (M_Page /\ M_App_loop) \/ (P_Page /\ P_App_animate)
  /\ arr0'.due

\* a due frame of a run whose steppers are all finished
DueFrameAtEnd == Running /\ AllFinished(simA, simB) /\ DueFrame

\* requestAnimationFrame calls the loop again after every frame and the clock
\* advances, so a frame with the interval elapsed always comes; the frame
\* that matters for stopping is the one that finds every stepper finished
SpecFrameLoops ==
  InitFrameLoops /\ [][NextFrameLoops]_vars /\ WF_vars(DueFrameAtEnd)

\* step() is among the calls a handler made
StepCalled(calls) == \E k \in 1..Len(calls) : calls[k] \in {"A.step", "B.step"}

\* C37: in the frame loops of main.js and part_000, when the app is running
\* and every live stepper is finished, the next frame whose step interval has
\* elapsed clears the running flag and calls no step(); no handler calls
\* step() on a pair of finished steppers; and, such a frame always coming, a
\* run whose steppers are all finished does not stay running.
C37_FinishedRunStops ==
  /\ [][/\ (Running /\ AllFinished(simA, simB)
              /\ arr0'.handler = "loop" /\ arr0'.due) =>
             /\ ~Running'
             /\ ~StepCalled(arr0'.calls)
             /\ simA' = simA
             /\ simB' = simB
        /\ AllFinished(simA, simB) => ~StepCalled(arr0'.calls)]_vars
  /\ (Running /\ AllFinished(simA, simB)) ~> ~Running

\* the frame of part_000 that finished the second stepper of a battle: both
\* are finished and isPlaying is still set
C37_Witness ==
  /\ P_Page
  /\ cores.isPlaying
  /\ simB # NoSim
  /\ AllFinished(simA, simB)
  /\ arr0.handler = "loop"
  /\ StepCalled(arr0.calls)

\* main.js: Play pressed on a finished battle
C37_MainWitness ==
  /\ M_Page
  /\ cores.isRunning
  /\ simB # NoSim
  /\ AllFinished(simA, simB)
  /\ arr0.handler = "togglePlayPause"

\* a stepper as init() leaves it: finished false and every counter of stats 0
FreshlyInit(s) ==
  /\ ~Finished(s)
  /\ \A f \in DOMAIN s.stats : s.stats[f] = 0

VisLength(s) == IF s.cls = "P.StackVisualization" THEN Len(s.stack) ELSE Len(s.queue)

VisAdded(s) ==
  IF s.cls = "P.StackVisualization" THEN s.stats.pushes ELSE s.stats.enqueues

VisTaken(s) ==
  IF s.cls = "P.StackVisualization" THEN s.stats.pops ELSE s.stats.dequeues

VisMaxSize(s) ==
  IF s.cls = "P.StackVisualization" THEN P_Stack_maxSize ELSE P_Queue_maxSize

\* C39: in part_000, for StackVisualization and QueueVisualization, for every
\* size and after every step(): the container length is pushes minus pops
\* (enqueues minus dequeues), lies in 0..maxSize, and pushes + pops (enqueues
\* + dequeues) equals stats.operations, every operation having taken effect.
C39_VisCounts ==
  /\ VisLength(simA) = VisAdded(simA) - VisTaken(simA)
  /\ VisLength(simA) \in 0..VisMaxSize(simA)
  /\ VisAdded(simA) + VisTaken(simA) = simA.stats.operations

\* C39: the length is the balance of the counters and stays in 0..maxSize
C39_LengthIsBalance ==
  /\ VisLength(simA) = VisAdded(simA) - VisTaken(simA)
  /\ VisLength(simA) \in 0..VisMaxSize(simA)

\* C39: init generates additions only, so nothing is ever taken, the first
\* maxSize operations take effect and every later one is counted in
\* stats.operations and dropped
C39_RefusedCounted ==
  /\ \A k \in 1..Len(simA.operations) :
       simA.operations[k].type \in {"push", "enqueue"}
  /\ VisTaken(simA) = 0
  /\ simA.stats.operations = simA.currentOp
  /\ VisAdded(simA) = IF simA.currentOp <= VisMaxSize(simA)
                      THEN simA.currentOp ELSE VisMaxSize(simA)

=============================================================================
